---- MODULE Spec2Model ----
(***************************************************************************)
(* A model of the loop-optimizer media tool.                               *)
(*                                                                         *)
(* Numbers.  JavaScript numbers are modelled exactly:                      *)
(*   - times of the LoopAnalyzer are held in ticks of 1/frameRate second   *)
(*     (frameRate = 30), so startFrame / frameRate seconds is startFrame   *)
(*     ticks and a duration of d ticks is d/30 s;                          *)
(*   - a similarity is an exact rational [num, den], den > 0;              *)
(*   - a score is an exact rational in ten-thousandths: [num, den] stands  *)
(*     for num / (den * ScoreScale).                                       *)
(***************************************************************************)
EXTENDS Integers, Sequences, FiniteSets, TLC

VARIABLES
    frameBuffer,       \* LoopAnalyzer.frameBuffer: [length |-> number of frames]
    audioBuffer,       \* LoopAnalyzer.audioBuffer: NULL or the audio record
    analysisResults,   \* LoopAnalyzer.analysisResults: NULL or the last result
    returned,          \* what the last call returned or threw: [op, status, value]
    candidates,        \* the array a caller passes to _rankLoopCandidates
    rankedCandidates,  \* the array the last _rankLoopCandidates call returned
    previousRanked,    \* the array the call before it returned
    rankCalls,         \* the number of _rankLoopCandidates calls made
    result,            \* what the last call on the transition optimizer, the loop
                       \* processor, a transition engine or the blending service
                       \* returned, with its producer
    tempFiles,         \* the frame files under ./temp/blend, by directory
    calls,             \* the processMedia calls on the one LoopOptimizer instance:
                       \* for each its position, arguments, locals and outcome
    firebase,          \* the FirebaseIntegration object, the writes its store has
                       \* received and the saveResults call under way
    batch,             \* a BatchJob: its parameters, its mediaQueue and its
                       \* process() calls
    blendRuns,         \* the blendFrames calls under way together, each with its
                       \* position and what it has read and produced
    ui                 \* the LoopOptimizerUI of the web page

analyzerVars == <<frameBuffer, audioBuffer, analysisResults, returned>>
rankVars == <<candidates, rankedCandidates, previousRanked, rankCalls>>
transitionVars == <<result>>
fileVars == <<tempFiles>>
processVars == <<calls>>
firebaseVars == <<firebase>>
batchVars == <<batch>>
runVars == <<blendRuns>>
uiVars == <<ui>>
integrationVars == <<firebaseVars, batchVars, runVars, uiVars>>
serviceVars == <<fileVars, processVars, integrationVars>>
vars == <<analyzerVars, rankVars, transitionVars, serviceVars>>

\* What the calls on one object leave alone
exceptFirebase == <<analyzerVars, rankVars, transitionVars, fileVars, processVars, batchVars, runVars, uiVars>>
exceptBatch == <<analyzerVars, rankVars, transitionVars, fileVars, processVars, firebaseVars, runVars, uiVars>>
exceptFilesAndRuns == <<analyzerVars, rankVars, transitionVars, processVars, firebaseVars, batchVars, uiVars>>
exceptUi == <<analyzerVars, rankVars, transitionVars, fileVars, processVars, firebaseVars, batchVars, runVars>>

\* null and undefined where an object is expected, and where a string is
NULL == [null |-> TRUE]
UNDEFINED == [undefined |-> TRUE]
NoString == "undefined"

Abs(x) == IF x < 0 THEN -x ELSE x
Min(a, b) == IF a < b THEN a ELSE b
Max(a, b) == IF a > b THEN a ELSE b

\* Math.floor(a / b) for b > 0
Floor(a, b) == a \div b

(***************************************************************************)
(* Exact rationals                                                         *)
(***************************************************************************)
Rat(n, d) == [num |-> n, den |-> d]
RatLT(a, b) == a.num * b.den < b.num * a.den
RatLE(a, b) == a.num * b.den <= b.num * a.den
RatEQ(a, b) == a.num * b.den = b.num * a.den
Zero == Rat(0, 1)
One == Rat(1, 1)

(***************************************************************************)
(* LoopAnalyzer (src/src/core/media-analyzer.js)                           *)
(***************************************************************************)
frameRate == 30
StubFrameCount == 30
StubAudioDuration == 10
ScoreScale == 10000
MaxFrameCount == 61

\* The lengths a decoded frame buffer can have: the placeholder decoder always
\* yields StubFrameCount frames; a real decoder yields what the clip holds.
VideoFrameCounts == {1, 2, StubFrameCount, MaxFrameCount}

\* An array is truthy in JavaScript, also when it is empty; only null is falsy.
Falsy(v) == v = NULL

\* MatrixEntry with the mirror assignment matrix[j][i] = similarity left out:
\* the cells below the diagonal keep the 0 the matrix was filled with.
MatrixEntryUnmirrored(frameCount, a, b) ==
    IF a = b THEN Rat(1, 1)
    ELSE IF a < b THEN Rat(frameCount - Abs(a - b), frameCount)
    ELSE Rat(0, 1)

\* _calculateSimilarityMatrix: matrix[i][j] for 0 <= i, j < frameCount.  The
\* loop runs over j >= i and stores the value computed for (i, j) in both
\* matrix[i][j] and matrix[j][i].
MatrixEntry(frameCount, a, b) ==
    IF a = b THEN One
    ELSE LET i == Min(a, b)
             j == Max(a, b)
         IN  Rat(frameCount - Abs(i - j), frameCount)

Frames(n) == [length |-> n]

\* The matrix is the function of its cells, matrix[i][j] for 0 <= i, j < length;
\* its length is carried beside it (MatrixLength).
calculateSimilarityMatrix(buffer) ==
    IF Falsy(buffer) \/ buffer.length = 0 THEN << >>
    ELSE [i \in 0..(buffer.length - 1) |->
            [j \in 0..(buffer.length - 1) |-> MatrixEntry(buffer.length, i, j)]]

\* similarityMatrix.length of the matrix calculateSimilarityMatrix(buffer) builds
MatrixLength(buffer) == IF Falsy(buffer) THEN 0 ELSE buffer.length

\* The suggestion the placeholder Gemini client returns for frameCount frames.
StubSuggestion(frameCount) ==
    [startFrame |-> Floor(frameCount * 2, 10),
     endFrame |-> Floor(frameCount * 8, 10),
     confidence |-> Rat(92, 100),
     transitionType |-> "crossfade"]

GeminiCandidate(suggestion) ==
    [startFrame |-> suggestion.startFrame,
     endFrame |-> suggestion.endFrame,
     startTime |-> suggestion.startFrame,
     endTime |-> suggestion.endFrame,
     duration |-> suggestion.endFrame - suggestion.startFrame,
     similarity |-> suggestion.confidence,
     source |-> "gemini",
     transitionType |-> IF suggestion.transitionType = NoString
                        THEN "cut" ELSE suggestion.transitionType]

AlgorithmCandidate(startFrame, endFrame, similarity) ==
    [startFrame |-> startFrame,
     endFrame |-> endFrame,
     startTime |-> startFrame,
     endTime |-> endFrame,
     duration |-> endFrame - startFrame,
     similarity |-> similarity,
     source |-> "algorithm",
     transitionType |-> IF RatLT(Rat(9, 10), similarity) THEN "cut" ELSE "crossfade"]

minFrames == Floor(frameRate * 2, 1)
maxFrames == Floor(frameRate * 15, 1)

\* The inner loop of _findLoopCandidates for one startFrame: the candidates
\* with lo <= endFrame < hi, in the order of the loop.
RECURSIVE CandidatesFrom(_, _, _, _)
CandidatesFrom(matrix, startFrame, lo, hi) ==
    IF lo >= hi THEN << >>
    ELSE IF hi = lo + 1
    THEN (IF RatLT(Rat(8, 10), matrix[startFrame][lo])
          THEN <<AlgorithmCandidate(startFrame, lo, matrix[startFrame][lo])>>
          ELSE << >>)
    ELSE LET mid == (lo + hi) \div 2
         IN  CandidatesFrom(matrix, startFrame, lo, mid)
             \o CandidatesFrom(matrix, startFrame, mid, hi)

\* The outer loop of _findLoopCandidates: the candidates with
\* lo <= startFrame < hi, in the order of the loop.
RECURSIVE AlgorithmCandidates(_, _, _, _)
AlgorithmCandidates(matrix, frameCount, lo, hi) ==
    IF lo >= hi THEN << >>
    ELSE IF hi = lo + 1
    THEN CandidatesFrom(matrix, lo, lo + minFrames, Min(frameCount, lo + maxFrames))
    ELSE LET mid == (lo + hi) \div 2
         IN  AlgorithmCandidates(matrix, frameCount, lo, mid)
             \o AlgorithmCandidates(matrix, frameCount, mid, hi)

\* _findLoopCandidates(similarityMatrix, geminiAnalysis), with
\* frameCount = similarityMatrix.length
findLoopCandidates(similarityMatrix, frameCount, suggestions) ==
    [k \in 1..Len(suggestions) |-> GeminiCandidate(suggestions[k])]
    \o (IF frameCount > 0
        THEN AlgorithmCandidates(similarityMatrix, frameCount, 0, frameCount - minFrames)
        ELSE << >>)

\* The score of _rankLoopCandidates before clamping, in ten-thousandths times
\* the similarity's denominator:
\*   similarity * 0.6 + (1 - |duration - 5| / 10) * 0.3 + sourceBoost
\* with duration in ticks: |duration/30 - 5| / 10 = |duration - 150| / 300.
\* sourceBoost with the boost left out
sourceBoostNone(candidate) == 0

sourceBoost(candidate) == IF candidate.source = "gemini" THEN 1000 ELSE 0

\* durationScore * 0.3 in ten-thousandths: 3000 * (1 - |duration - 150| / 300)
durationTerm(candidate) == 3000 - 10 * Abs(candidate.duration - 5 * frameRate)

RawScore(candidate) ==
    candidate.similarity.num * 6000
    + (durationTerm(candidate) + sourceBoost(candidate)) * candidate.similarity.den

\* Math.min(1, Math.max(0, score))
ClampScore(raw, den) == Min(ScoreScale * den, Max(0, raw))

ScoreOf(candidate) ==
    Rat(ClampScore(RawScore(candidate), candidate.similarity.den),
        candidate.similarity.den)

Scored(candidate) ==
    [startFrame |-> candidate.startFrame,
     endFrame |-> candidate.endFrame,
     startTime |-> candidate.startTime,
     endTime |-> candidate.endTime,
     duration |-> candidate.duration,
     similarity |-> candidate.similarity,
     source |-> candidate.source,
     transitionType |-> candidate.transitionType,
     score |-> ScoreOf(candidate)]

\* The comparator (a, b) => b.score - a.score is negative when a goes first.
ComesBefore(a, b) == RatLT(b.score, a.score)

\* SortedPosition of a sort that is not stable: equal elements change places.
SortedPositionUnstable(list, k) ==
    1 + Cardinality({i \in 1..Len(list) :
                        \/ RatLT(list[k].score, list[i].score)
                        \/ i > k /\ ~RatLT(list[i].score, list[k].score)})

\* Array.prototype.sort is stable: in the sorted array list[k] stands after the
\* elements that come before it and after the earlier elements it does not
\* come before.
SortedPosition(list, k) ==
    1 + Cardinality({i \in 1..Len(list) :
                        \/ ComesBefore(list[i], list[k])
                        \/ i < k /\ ~ComesBefore(list[k], list[i])})

SortByScore(list) ==
    [p \in 1..Len(list) |->
        list[CHOOSE k \in 1..Len(list) : SortedPosition(list, k) = p]]

\* _rankLoopCandidates(candidates)
rankLoopCandidates(list) ==
    SortByScore([k \in 1..Len(list) |-> Scored(list[k])])

(***************************************************************************)
(* Inputs of the analyzer                                                  *)
(***************************************************************************)
\* options of analyzeMedia, in seconds; the first are the optimizer's defaults
OptionsPool ==
    {[minLoopDuration |-> 3, maxLoopDuration |-> 10],
     [minLoopDuration |-> 2, maxLoopDuration |-> 15]}

\* What an advisory service can answer besides the placeholder's suggestion.
SuggestionPool ==
    {[startFrame |-> 0, endFrame |-> 150, confidence |-> Rat(92, 100),
      transitionType |-> "crossfade"],
     [startFrame |-> 0, endFrame |-> 600, confidence |-> Rat(5, 10),
      transitionType |-> "morph"],
     [startFrame |-> 30, endFrame |-> 120, confidence |-> Rat(15, 10),
      transitionType |-> NoString]}

\* geminiAnalysis.suggestions: the placeholder's answer, the empty fallback of
\* _analyzeWithGemini, or suggestions of a real service.
GeminiResponses(frameCount) ==
    {<< >>, <<StubSuggestion(frameCount)>>}
    \cup {<<s>> : s \in SuggestionPool}
    \cup {<<StubSuggestion(frameCount), s>> : s \in SuggestionPool}

Returned(op, status, value) == [op |-> op, status |-> status, value |-> value]

\* The state after new LoopAnalyzer(config)
AnalyzerInit ==
    /\ frameBuffer = Frames(0)
    /\ audioBuffer = NULL
    /\ analysisResults = NULL
    /\ returned = Returned("constructor", "ok", "analyzer")

\* No _rankLoopCandidates call of a caller outside the analyzer is under way.
RankIdle ==
    /\ candidates = << >>
    /\ rankedCandidates = << >>
    /\ previousRanked = << >>
    /\ rankCalls = 0

\* No transition has been produced.
TransitionIdle == result = [producer |-> "none"]

\* The blending service has left no temporary file.
NoFiles == << >>
\* The processMedia calls made on the instance
MaxCalls == 2
Callers == 1..MaxCalls

\* A call that has not been made; the fields are the locals of processMedia
\* and of the analyzeMedia it awaits.
NoCall ==
    [pc |-> "idle", mediaInput |-> NULL, params |-> NULL, mediaType |-> NULL,
     matrixFrames |-> NULL, analysis |-> NULL, outcome |-> NULL]

\* The state after new FirebaseIntegration(config): not initialized, no auth
\* object, nothing written and no saveResults call under way.
NoSave == [pc |-> "idle"]
FirebaseConstructed ==
    [initialized |-> FALSE, auth |-> NULL, writes |-> << >>, save |-> NoSave,
     returned |-> [op |-> "constructor", status |-> "ok", value |-> NoString]]

\* The process() calls of a batch job that can be under way together
MaxProcessCalls == 2
MaxQueue == 3
Runs == 1..MaxProcessCalls
NoRun == [pc |-> "idle", index |-> 0, results |-> << >>, queueLength |-> 0]

\* new BatchJob(optimizer, parameters): an empty mediaQueue, no process() call
NewBatchJob(parameters) ==
    [created |-> TRUE, parameters |-> parameters, mediaQueue |-> << >>,
     runs |-> [r \in Runs |-> NoRun]]

\* No batch job has been created.
BatchCreated == [NewBatchJob(UNDEFINED) EXCEPT !.created = FALSE]

\* The blendFrames calls that can be under way together
MaxBlendRuns == 2
BlendRuns == 1..MaxBlendRuns
NoBlendRun ==
    [pc |-> "idle", totalFrames |-> 0, blendFrameCount |-> 0, blended |-> << >>,
     outcome |-> NULL]

MaxOptimizations == 2
MaxResets == 2
Optimizations == 1..MaxOptimizations
NoOptimization == [pc |-> "idle", resetsAtStart |-> 0]

\* The page after new LoopOptimizerUI(): no file, no result, the result card
\* and the processing modal hidden, no optimization pending.  resets counts
\* the calls of resetUI so far.
UiLoaded ==
    [currentFile |-> NULL, currentResult |-> NULL, resultCardHidden |-> TRUE,
     processingModalHidden |-> TRUE, alert |-> "", resets |-> 0,
     optimizations |-> [r \in Optimizations |-> NoOptimization]]

ServiceIdle ==
    /\ tempFiles = [start_frames |-> NoFiles, end_frames |-> NoFiles,
                    blended_frames |-> NoFiles]
    /\ calls = [c \in Callers |-> NoCall]
    /\ firebase = FirebaseConstructed
    /\ batch = BatchCreated
    /\ blendRuns = [r \in BlendRuns |-> NoBlendRun]
    /\ ui = UiLoaded

Init == AnalyzerInit /\ RankIdle /\ TransitionIdle /\ ServiceIdle

\* loadMedia(mediaData, mediaType) with a video type
LoadVideo(frameCount) ==
    /\ frameBuffer' = Frames(frameCount)
    /\ returned' = Returned("loadMedia", "ok", TRUE)
    /\ UNCHANGED <<audioBuffer, analysisResults, rankVars, transitionVars, serviceVars>>

\* loadMedia(mediaData, mediaType) with an audio type
LoadAudio ==
    /\ audioBuffer' = [sampleRate |-> 44100, duration |-> StubAudioDuration, channels |-> 2]
    /\ returned' = Returned("loadMedia", "ok", TRUE)
    /\ UNCHANGED <<frameBuffer, analysisResults, rankVars, transitionVars, serviceVars>>

\* loadMedia(mediaData, mediaType) with any other type
LoadUnsupported ==
    /\ returned' = Returned("loadMedia", "throw", "Failed to load media: Unsupported media type")
    /\ UNCHANGED <<frameBuffer, audioBuffer, analysisResults, rankVars, transitionVars, serviceVars>>

AnalysisOf(options, suggestions) ==
    LET similarityMatrix == calculateSimilarityMatrix(frameBuffer)
        loopCandidates == findLoopCandidates(similarityMatrix,
                                             MatrixLength(frameBuffer), suggestions)
        ranked == rankLoopCandidates(loopCandidates)
    IN  [inputOptions |-> options,
         mediaInfo |->
            [frameCount |-> IF Falsy(frameBuffer) THEN 0 ELSE frameBuffer.length,
             duration |-> IF Falsy(frameBuffer)
                          THEN (IF Falsy(audioBuffer) THEN 0
                                ELSE audioBuffer.duration * frameRate)
                          ELSE frameBuffer.length],
         loopCandidates |-> ranked,
         bestLoopPoint |-> IF Len(ranked) = 0 THEN UNDEFINED
                           ELSE ranked[1]]

\* analyzeMedia(options)
AnalyzeMedia(options, suggestions) ==
    IF Falsy(frameBuffer) /\ Falsy(audioBuffer)
    THEN /\ returned' = Returned("analyzeMedia", "throw", "No media loaded for analysis")
         /\ UNCHANGED <<frameBuffer, audioBuffer, analysisResults, rankVars, transitionVars, serviceVars>>
    ELSE /\ analysisResults' = AnalysisOf(options, suggestions)
         /\ returned' = Returned("analyzeMedia", "ok", "analysisResults")
         /\ UNCHANGED <<frameBuffer, audioBuffer, rankVars, transitionVars, serviceVars>>

\* transitionDuration of getOptimizedLoopParameters, in tenths of a second
TransitionDurationOf(transitionType) == IF transitionType = "crossfade" THEN 5 ELSE 0

\* getOptimizedLoopParameters()
GetOptimizedLoopParameters ==
    /\ returned' =
          IF analysisResults = NULL
          THEN Returned("getOptimizedLoopParameters", "ok", NULL)
          ELSE IF analysisResults.bestLoopPoint = UNDEFINED
          THEN Returned("getOptimizedLoopParameters", "throw", "TypeError")
          ELSE LET bestLoop == analysisResults.bestLoopPoint
               IN  Returned("getOptimizedLoopParameters", "ok",
                     [startTime |-> bestLoop.startTime,
                      endTime |-> bestLoop.endTime,
                      duration |-> bestLoop.duration,
                      score |-> bestLoop.score,
                      transitionType |-> bestLoop.transitionType,
                      transitionDuration |-> TransitionDurationOf(bestLoop.transitionType)])
    /\ UNCHANGED <<frameBuffer, audioBuffer, analysisResults, rankVars, transitionVars, serviceVars>>

\* reset()
Reset ==
    /\ frameBuffer' = Frames(0)
    /\ audioBuffer' = NULL
    /\ analysisResults' = NULL
    /\ returned' = Returned("reset", "ok", NoString)
    /\ UNCHANGED <<rankVars, transitionVars, serviceVars>>

Next ==
    \/ \E frameCount \in VideoFrameCounts : LoadVideo(frameCount)
    \/ LoadAudio
    \/ LoadUnsupported
    \/ \E options \in OptionsPool :
          \E suggestions \in GeminiResponses(frameBuffer.length) :
             AnalyzeMedia(options, suggestions)
    \/ GetOptimizedLoopParameters
    \/ Reset

Spec == Init /\ [][Next]_vars

(***************************************************************************)
(* _rankLoopCandidates as a function of its argument                       *)
(***************************************************************************)
MaxCandidates == 2
MaxRankCalls == 2

RankSimilarities == {Rat(1, 10), Rat(5, 10), Rat(92, 100), Rat(15, 10)}
RankDurations == {60, 150, 250, 450, 1200}

RankCandidatePool ==
    {GeminiCandidate([startFrame |-> 0, endFrame |-> d, confidence |-> sim,
                      transitionType |-> "crossfade"]) :
        sim \in RankSimilarities, d \in RankDurations}
    \cup {AlgorithmCandidate(0, d, sim) :
            sim \in {r \in RankSimilarities : RatLE(r, One)}, d \in RankDurations}

RankInputs ==
    UNION {[1..n -> RankCandidatePool] : n \in 0..MaxCandidates}

RankInit ==
    /\ AnalyzerInit
    /\ TransitionIdle
    /\ ServiceIdle
    /\ candidates \in RankInputs
    /\ rankedCandidates = << >>
    /\ previousRanked = << >>
    /\ rankCalls = 0

\* What the argument array holds after _rankLoopCandidates returns: map builds
\* a new array of new objects and sort works on that one.
ArgumentAfterRank(list) == list

\* rankedCandidates = this._rankLoopCandidates(candidates)
RankCall ==
    /\ rankCalls < MaxRankCalls
    /\ rankedCandidates' = rankLoopCandidates(candidates)
    /\ candidates' = ArgumentAfterRank(candidates)
    /\ previousRanked' = rankedCandidates
    /\ rankCalls' = rankCalls + 1
    /\ UNCHANGED <<analyzerVars, transitionVars, serviceVars>>

\* rankedCandidates = this._rankLoopCandidates(rankedCandidates)
RankRanked ==
    /\ rankCalls >= 1
    /\ rankCalls < MaxRankCalls
    /\ rankedCandidates' = rankLoopCandidates(rankedCandidates)
    /\ candidates' = ArgumentAfterRank(rankedCandidates)
    /\ previousRanked' = rankedCandidates
    /\ rankCalls' = rankCalls + 1
    /\ UNCHANGED <<analyzerVars, transitionVars, serviceVars>>

RankNext == RankCall \/ RankRanked

RankSpec == RankInit /\ [][RankNext]_vars

(***************************************************************************)
(* Transitions: TransitionOptimizer (src/src/loopOptimizer.js), LoopProcessor, *)
(* TransitionEngine and its video and audio engines (loop-processor.js and *)
(* the transition engine in src/unnamed/part_001).  Times are in tenths of *)
(* a second, similarities in hundredths.                                   *)
(***************************************************************************)
\* an optional value: absent (undefined) or present
Absent == << >>
Some(v) == <<v>>
ValueOf(opt) == opt[1]

\* TransitionOptimizer.optimizeTransition: duration of transitions[0]
OptimizedDuration(transitionType) == IF transitionType = "crossfade" THEN 5 ELSE 0

\* The transition types a caller can ask for in parameters.preferredTransition
PreferredTransitions == {"crossfade", "cut", "morph", "none", NoString}

\* optimizeTransition(mediaInput, loopPoint, options)
OptimizeTransition(endTime, transitionType) ==
    /\ result' = [producer |-> "optimizeTransition",
                  timestamp |-> endTime,
                  duration |-> OptimizedDuration(transitionType),
                  type |-> transitionType]
    /\ UNCHANGED <<analyzerVars, rankVars, serviceVars>>

\* calculateOptimalTransition with the thresholds read as inclusive
TransitionForInclusive(similarity) ==
    IF similarity >= 90
    THEN [type |-> IF similarity > 95 THEN "none" ELSE "crossfade",
          duration |-> IF similarity > 95 THEN 0 ELSE 2]
    ELSE IF similarity >= 70 THEN [type |-> "crossfade", duration |-> 5]
    ELSE IF similarity >= 40 THEN [type |-> "crossfade", duration |-> 10]
    ELSE [type |-> "morph", duration |-> 15]

\* calculateOptimalTransition: type and duration for a boundary similarity
TransitionFor(similarity) ==
    IF similarity > 90
    THEN [type |-> IF similarity > 95 THEN "none" ELSE "crossfade",
          duration |-> IF similarity > 95 THEN 0 ELSE 2]
    ELSE IF similarity > 70 THEN [type |-> "crossfade", duration |-> 5]
    ELSE IF similarity > 40 THEN [type |-> "crossfade", duration |-> 10]
    ELSE [type |-> "morph", duration |-> 15]

\* What _calculateContentSimilarity can return: the placeholder returns 0.8
\* ("Example similarity score (0-1)"); an implementation returns any value
\* of [0,1].
StubSimilarity == 80
ContentSimilarities ==
    {0, 39, 40, 41, 69, 70, 71, StubSimilarity, 89, 90, 91, 94, 95, 96, 100}

\* calculateOptimalTransition(mediaData, loopPoints)
CalculateOptimalTransition(similarity) ==
    /\ result' = [producer |-> "calculateOptimalTransition",
                  type |-> TransitionFor(similarity).type,
                  duration |-> TransitionFor(similarity).duration,
                  similarity |-> similarity]
    /\ UNCHANGED <<analyzerVars, rankVars, serviceVars>>

\* LoopProcessor._validateInputs: the message of the error it throws, or "ok"
validateInputs(hasMedia, loopSuggestions, hasParameters, loopParameters) ==
    IF ~hasMedia THEN "Invalid media source"
    ELSE IF loopSuggestions = NULL THEN "Missing loop suggestions"
    ELSE IF ~hasParameters THEN "Missing processing parameters"
    ELSE IF loopParameters.crossfadeDuration # Absent
            /\ ValueOf(loopParameters.crossfadeDuration) < 0
    THEN "Crossfade duration must be non-negative"
    ELSE IF loopParameters.targetDuration # Absent
            /\ ValueOf(loopParameters.targetDuration) # 0
            /\ ValueOf(loopParameters.targetDuration) <= 0
    THEN "Target duration must be positive"
    ELSE "ok"

\* the suggestion of the highest confidence, the first one among equals
BestSuggestion(items) ==
    items[CHOOSE k \in 1..Len(items) :
            /\ \A i \in 1..Len(items) : items[i].confidence <= items[k].confidence
            /\ \A i \in 1..(k - 1) : items[i].confidence < items[k].confidence]

\* LoopProcessor._getOptimalLoopPoints
getOptimalLoopPoints(loopSuggestions) ==
    IF loopSuggestions.points # Absent
    THEN ValueOf(loopSuggestions.points)
    ELSE IF loopSuggestions.startTime # Absent /\ loopSuggestions.endTime # Absent
    THEN [start |-> ValueOf(loopSuggestions.startTime),
          end |-> ValueOf(loopSuggestions.endTime)]
    ELSE IF Len(loopSuggestions.items) > 0
    THEN [start |-> BestSuggestion(loopSuggestions.items).startTime,
          end |-> BestSuggestion(loopSuggestions.items).endTime]
    ELSE [start |-> 0, end |-> 100]

ProcessorTransitionTypes == {"crossfade", "cut", "morph"}

\* LoopProcessor._determineOptimalTransition
determineOptimalTransition(mediaType, requested, hasSignificantMotion) ==
    IF requested \in ProcessorTransitionTypes THEN requested
    ELSE IF mediaType = "video"
    THEN (IF hasSignificantMotion THEN "morph" ELSE "crossfade")
    ELSE IF mediaType = "audio" THEN "crossfade"
    ELSE "cut"

\* parameters.loopParameters?.crossfadeDuration || 0.5
CrossfadeOrDefault(crossfadeDuration) ==
    IF crossfadeDuration = Absent \/ ValueOf(crossfadeDuration) = 0 THEN 5
    ELSE ValueOf(crossfadeDuration)

\* LoopProcessor._createTransition: the one transition point it returns
createTransition(transitionType, duration) ==
    [timestamp |-> 0, duration |-> duration, type |-> transitionType]

Suggestion(points, startTime, endTime, items) ==
    [points |-> points, startTime |-> startTime, endTime |-> endTime, items |-> items]

\* The shapes of loopSuggestions: with points, with startTime and endTime, an
\* array of suggestions, and an object with none of these.
SuggestionShapes ==
    {Suggestion(Some([start |-> 10, end |-> 40]), Absent, Absent, << >>),
     Suggestion(Absent, Some(0), Some(50), << >>),
     Suggestion(Absent, Absent, Absent,
                <<[startTime |-> 0, endTime |-> 30, confidence |-> 70],
                  [startTime |-> 20, endTime |-> 60, confidence |-> 90]>>),
     Suggestion(Absent, Absent, Absent, << >>)}

CrossfadeDurations == {Absent, Some(-5), Some(0), Some(2), Some(10), Some(20)}
TargetDurations == {Absent, Some(-10), Some(0), Some(50)}
RequestedTransitions == {"crossfade", "cut", "morph", "wipe", NoString}
MediaTypes == {"video", "audio", "other"}

\* LoopProcessor.createLoop(mediaSource, loopSuggestions, parameters): what it
\* returns or throws
createLoop(mediaType, hasMedia, loopSuggestions, hasParameters, loopParameters, hasSignificantMotion) ==
    LET problem == validateInputs(hasMedia, loopSuggestions, hasParameters, loopParameters)
        transitionType == determineOptimalTransition(mediaType,
                              loopParameters.transitionType, hasSignificantMotion)
        made == createTransition(transitionType,
                                 CrossfadeOrDefault(loopParameters.crossfadeDuration))
    IN  IF problem # "ok"
        THEN [producer |-> "createLoop", status |-> "throw",
              message |-> <<"Loop processing failed: ", problem>>]
        ELSE [producer |-> "createLoop", status |-> "ok",
              loopPoints |-> getOptimalLoopPoints(loopSuggestions),
              transitions |-> <<made>>,
              transitionType |-> transitionType]

\* createLoop called by a client
CreateLoop(mediaType, hasMedia, loopSuggestions, hasParameters, loopParameters, hasSignificantMotion) ==
    /\ result' = createLoop(mediaType, hasMedia, loopSuggestions, hasParameters,
                            loopParameters, hasSignificantMotion)
    /\ UNCHANGED <<analyzerVars, rankVars, serviceVars>>

\* the arguments of one createLoop call
Call(mediaType, hasMedia, loopSuggestions, hasParameters, crossfadeDuration, targetDuration, transitionType, hasSignificantMotion) ==
    [mediaType |-> mediaType, hasMedia |-> hasMedia,
     loopSuggestions |-> loopSuggestions, hasParameters |-> hasParameters,
     loopParameters |-> [crossfadeDuration |-> crossfadeDuration,
                         targetDuration |-> targetDuration,
                         transitionType |-> transitionType],
     hasSignificantMotion |-> hasSignificantMotion]

\* The createLoop calls explored: every combination of medium, suggestion
\* shape, requested transition and crossfade duration on otherwise valid
\* arguments, and each way of failing the validation.
CreateLoopCalls ==
    {Call(mediaType, TRUE, loopSuggestions, TRUE, crossfadeDuration, Absent,
          transitionType, hasSignificantMotion) :
        mediaType \in MediaTypes, loopSuggestions \in SuggestionShapes,
        crossfadeDuration \in CrossfadeDurations,
        transitionType \in RequestedTransitions, hasSignificantMotion \in BOOLEAN}
    \cup {Call("video", hasMedia, loopSuggestions, hasParameters, Absent, Absent,
               NoString, FALSE) :
             hasMedia \in BOOLEAN, loopSuggestions \in SuggestionShapes \cup {NULL},
             hasParameters \in BOOLEAN}
    \cup {Call("audio", TRUE, CHOOSE shape \in SuggestionShapes : shape.points # Absent,
               TRUE, crossfadeDuration, targetDuration, "cut", FALSE) :
             crossfadeDuration \in CrossfadeDurations,
             targetDuration \in TargetDurations}

\* Array.prototype.slice(begin, end) on a sequence, indices counted from 0
Slice(s, begin, end) ==
    LET n == Len(s)
        b == IF begin < 0 THEN Max(n + begin, 0) ELSE Min(begin, n)
        e == IF end < 0 THEN Max(n + end, 0) ELSE Min(end, n)
    IN  IF b >= e THEN << >> ELSE SubSeq(s, b + 1, e)

\* array[i] for an index from 0: undefined outside the array
At(s, i) == IF i >= 0 /\ i < Len(s) THEN s[i + 1] ELSE UNDEFINED

\* the arguments _blendFrames or _blendSamples is called with for index i
Blend(unitA, unitB, i, count) == [blendOf |-> <<unitA, unitB>>, ratio |-> <<i, count>>]

\* The units of a decoded medium: frames or samples 1 .. count
Units(count) == [k \in 1..count |-> [unit |-> k]]

\* The length an array has after the crossfade loop has assigned indices
\* 0 .. count-1: an Array grows, a typed array keeps its length.
LengthAfterBlend(kind, length, count) ==
    IF count > 0 /\ kind = "Array" THEN Max(length, count) ELSE length

\* The body shared by VideoTransitionEngine.applyTransitions and
\* AudioTransitionEngine.applyTransitions: slice the loop, then blend the
\* first crossfade units with the last ones.  Times in tenths of a second.
\* The returned array has `length` units; `units` lists those at the
\* positions of the segment, and every position past the segment holds
\* Blend(undefined, undefined, i, count), both slices being no longer than
\* the segment.
ApplyCrossfade(engine, kind, units, rate, start, end, crossfadeDuration) ==
    LET loopUnitStart == Floor(start * rate, 10)
        loopUnitEnd == Floor(end * rate, 10)
        crossfadeUnits == Floor(crossfadeDuration * rate, 10)
        loopUnits == Slice(units, loopUnitStart, loopUnitEnd)
        startUnits == Slice(loopUnits, 0, crossfadeUnits)
        endUnits == Slice(loopUnits, Len(loopUnits) - crossfadeUnits, Len(loopUnits))
        length == LengthAfterBlend(kind, Len(loopUnits), crossfadeUnits)
    IN  [producer |-> engine,
         length |-> length,
         units |-> [k \in 1..Len(loopUnits) |->
                      IF k <= crossfadeUnits
                      THEN Blend(At(endUnits, k - 1), At(startUnits, k - 1),
                                 k - 1, crossfadeUnits)
                      ELSE loopUnits[k]],
         segment |-> Len(loopUnits),
         blended |-> Max(crossfadeUnits, 0),
         duration |-> end - start,
         transitionMetadata |-> [type |-> "crossfade",
                                 duration |-> crossfadeDuration,
                                 count |-> crossfadeUnits]]

\* const { crossfadeDuration = 0.5 } = parameters
CrossfadeParameter(crossfadeDuration) ==
    IF crossfadeDuration = Absent THEN 5 ELSE ValueOf(crossfadeDuration)

\* audioData.sampleRate || 44100
DefaultSampleRate == 44100
SampleRateOf(sampleRate) ==
    IF sampleRate = Absent \/ ValueOf(sampleRate) = 0 THEN DefaultSampleRate
    ELSE ValueOf(sampleRate)

MaxUnits == 6
LoopTimes == {0, 5, 10, 20}
FrameRates == {2, 10}
SampleRates == {Absent, Some(0), Some(2), Some(10)}
SampleKinds == {"Array", "Float32Array"}
BlendDurations == {Absent, Some(-5), Some(0), Some(2), Some(5), Some(10), Some(20)}

\* VideoTransitionEngine.applyTransitions(videoData, loopPoints, [], parameters)
VideoApplyTransitions(frameCount, videoFrameRate, start, end, crossfadeDuration) ==
    /\ result' = ApplyCrossfade("VideoTransitionEngine", "Array", Units(frameCount),
                                    videoFrameRate, start, end,
                                    CrossfadeParameter(crossfadeDuration))
    /\ UNCHANGED <<analyzerVars, rankVars, serviceVars>>

\* AudioTransitionEngine.applyTransitions(audioData, loopPoints, [], parameters)
AudioApplyTransitions(kind, sampleCount, sampleRate, start, end, crossfadeDuration) ==
    /\ result' = ApplyCrossfade("AudioTransitionEngine", kind, Units(sampleCount),
                                    SampleRateOf(sampleRate), start, end,
                                    CrossfadeParameter(crossfadeDuration))
    /\ UNCHANGED <<analyzerVars, rankVars, serviceVars>>

\* The producers of transition descriptors: TransitionOptimizer,
\* TransitionEngine.calculateOptimalTransition, LoopProcessor.createLoop and
\* the analyzer's getOptimizedLoopParameters after an analysis of the
\* placeholder video.
TransitionNext ==
    \/ \E endTime \in LoopTimes : \E transitionType \in PreferredTransitions :
          OptimizeTransition(endTime, transitionType)
    \/ \E similarity \in ContentSimilarities : CalculateOptimalTransition(similarity)
    \/ \E call \in CreateLoopCalls :
          CreateLoop(call.mediaType, call.hasMedia, call.loopSuggestions,
                     call.hasParameters, call.loopParameters, call.hasSignificantMotion)
    \/ LoadVideo(StubFrameCount)
    \/ \E suggestions \in GeminiResponses(frameBuffer.length) :
          AnalyzeMedia([minLoopDuration |-> 3, maxLoopDuration |-> 10], suggestions)
    \/ GetOptimizedLoopParameters

TransitionSpec == Init /\ [][TransitionNext]_vars

\* The transition engines applied to decoded media of a few units.
BlendNext ==
    \/ \E frameCount \in 1..MaxUnits : \E videoFrameRate \in FrameRates :
          \E start \in LoopTimes : \E end \in {t \in LoopTimes : t > start} :
             \E crossfadeDuration \in BlendDurations :
                VideoApplyTransitions(frameCount, videoFrameRate, start, end,
                                      crossfadeDuration)
    \/ \E kind \in SampleKinds : \E sampleCount \in 1..MaxUnits :
          \E sampleRate \in SampleRates :
             \E start \in LoopTimes : \E end \in {t \in LoopTimes : t > start} :
                \E crossfadeDuration \in BlendDurations :
                   AudioApplyTransitions(kind, sampleCount, sampleRate, start, end,
                                         crossfadeDuration)

BlendSpec == Init /\ [][BlendNext]_vars

(***************************************************************************)
(* Frame blending service (frameBlendingService.js in src/unnamed/part_003) *)
(* and optimizeLoop (src/src/services/optimizationService.js).  A frame is *)
(* [unit |-> k], k standing for its pixel values; a video is the sequence  *)
(* of its frames, and a directory the sequence of its frame-%04d.png files *)
(* in name order.                                                          *)
(***************************************************************************)
NaN == [nan |-> TRUE]

\* const alpha = i / (frameCount - 1): 0 / 0 is NaN
BlendFactor(i, frameCount) ==
    IF frameCount - 1 = 0 THEN NaN ELSE Rat(i, frameCount - 1)

\* blendTwoFrames: the filter A*(1-alpha)+B*alpha on frame1 (A) and frame2 (B)
blendTwoFrames(frame1, frame2, alpha) ==
    [frame1 |-> frame1, frame2 |-> frame2, alpha |-> alpha,
     value |-> IF alpha = NaN THEN NaN
               ELSE Rat(frame1.unit * (alpha.den - alpha.num) + frame2.unit * alpha.num,
                        alpha.den)]

\* ffmpeg writing frame-0001.png, frame-0002.png, ... into a directory: files
\* of these names are replaced, files of higher numbers stay.
WriteFrames(directory, frames) ==
    [k \in 1..Max(Len(directory), Len(frames)) |->
        IF k <= Len(frames) THEN frames[k] ELSE directory[k]]

\* extractFrames(videoPath, outputDir, startTime, duration), in frames
extractFrames(video, startFrame, count) ==
    Slice(video, Max(startFrame, 0), Max(startFrame + count, 0))

\* createBlendedFrames(startFramesDir, endFramesDir, blendedFramesDir, frameCount):
\* the frames it blends, in output order
createBlendedFrames(startFrames, endFrames, frameCount) ==
    [k \in 1..frameCount |->
        blendTwoFrames(startFrames[k], endFrames[Len(endFrames) - frameCount + k],
                       BlendFactor(k - 1, frameCount))]

Thrown(producer, message, blended, files) ==
    [result |-> [producer |-> producer, status |-> "throw", message |-> message,
                 blended |-> blended],
     files |-> files]

\* blendFrames(inputPath, outputPath, blendFrameCount) on a video of
\* totalFrames frames: what it returns or throws, and the files it leaves.
\* hasVideoStream: whether ffprobe finds a video stream.  acceptsEmptySegment:
\* whether ffmpeg accepts a main segment of no or negative duration (it then
\* writes an empty segment) or rejects it.
blendFrames(files, totalFrames, blendFrameCount, hasVideoStream, acceptsEmptySegment) ==
    LET video == Units(totalFrames)
        extracted ==
            [files EXCEPT
               !.end_frames = WriteFrames(@, extractFrames(video,
                                  totalFrames - blendFrameCount, blendFrameCount)),
               !.start_frames = WriteFrames(@, extractFrames(video, 0, blendFrameCount))]
        startFrames == extracted.start_frames
        endFrames == extracted.end_frames
        blended == createBlendedFrames(startFrames, endFrames, blendFrameCount)
        written == [extracted EXCEPT !.blended_frames = WriteFrames(@, blended)]
        mainFrames == totalFrames - 2 * blendFrameCount
        mainSegment == extractFrames(video, blendFrameCount, Max(mainFrames, 0))
    IN  IF ~hasVideoStream
        THEN Thrown("blendFrames", "No video stream found", << >>, files)
        ELSE IF Len(startFrames) < blendFrameCount \/ Len(endFrames) < blendFrameCount
        THEN Thrown("blendFrames", "Not enough frames for blending", << >>, extracted)
        ELSE IF mainFrames <= 0 /\ ~acceptsEmptySegment
        THEN Thrown("blendFrames", "ffmpeg error", blended, written)
        ELSE [result |-> [producer |-> "blendFrames", status |-> "ok",
                          blended |-> blended,
                          output |-> written.blended_frames \o mainSegment],
              files |-> [start_frames |-> NoFiles, end_frames |-> NoFiles,
                         blended_frames |-> NoFiles]]

MaxSegmentFrames == 4
MaxBlendCount == 2

\* blendFrames called on a loop segment
BlendFrames(totalFrames, blendFrameCount, hasVideoStream, acceptsEmptySegment) ==
    LET outcome == blendFrames(tempFiles, totalFrames, blendFrameCount,
                               hasVideoStream, acceptsEmptySegment)
    IN  /\ result' = [segment |-> totalFrames, blendFrameCount |-> blendFrameCount]
                        @@ outcome.result
        /\ tempFiles' = outcome.files
        /\ UNCHANGED <<analyzerVars, rankVars, processVars, integrationVars>>

\* optimizeLoop(mediaPath, outputPath, params) whose extracted loop segment
\* has totalFrames frames.  audioOk: whether processAudio succeeds.
OptimizeLoop(totalFrames, blendFrameCount, audioFade, hasVideoStream, acceptsEmptySegment, audioOk) ==
    LET outcome == blendFrames(tempFiles, totalFrames, blendFrameCount,
                               hasVideoStream, acceptsEmptySegment)
        blending == blendFrameCount > 0
        optimizedVideo == IF blending THEN outcome.result.output ELSE Units(totalFrames)
        call == [segment |-> totalFrames, blendFrameCount |-> blendFrameCount]
    IN  IF blending /\ outcome.result.status = "throw"
        THEN /\ result' = call @@ [outcome.result EXCEPT !.producer = "optimizeLoop"]
             /\ tempFiles' = outcome.files
             /\ UNCHANGED <<analyzerVars, rankVars, processVars, integrationVars>>
        ELSE /\ result' =
                  IF audioFade /\ ~audioOk
                  THEN call @@ [producer |-> "optimizeLoop", status |-> "throw",
                                message |-> "audio processing error",
                                blended |-> IF blending THEN outcome.result.blended
                                            ELSE << >>]
                  ELSE call @@ [producer |-> "optimizeLoop", status |-> "ok",
                                output |-> optimizedVideo,
                                blended |-> IF blending THEN outcome.result.blended
                                            ELSE << >>,
                                optimizationApplied |->
                                   [videoBlending |-> blending, audioFade |-> audioFade]]
             /\ tempFiles' = IF blending THEN outcome.files ELSE tempFiles
             /\ UNCHANGED <<analyzerVars, rankVars, processVars, integrationVars>>

\* The blending service and optimizeLoop on loop segments of a few frames,
\* next to the two transition engines on a small medium.
FrameBlendNext ==
    \/ \E totalFrames \in 0..MaxSegmentFrames : \E blendFrameCount \in 1..MaxBlendCount :
          \E hasVideoStream \in BOOLEAN : \E acceptsEmptySegment \in BOOLEAN :
             BlendFrames(totalFrames, blendFrameCount, hasVideoStream, acceptsEmptySegment)
    \/ \E totalFrames \in 0..MaxSegmentFrames : \E blendFrameCount \in 0..MaxBlendCount :
          \E audioFade \in BOOLEAN : \E hasVideoStream \in BOOLEAN :
             \E acceptsEmptySegment \in BOOLEAN : \E audioOk \in BOOLEAN :
                OptimizeLoop(totalFrames, blendFrameCount, audioFade, hasVideoStream,
                             acceptsEmptySegment, audioOk)
    \/ \E crossfadeDuration \in {Absent, Some(2)} :
          VideoApplyTransitions(MaxSegmentFrames, 10, 0, 5, crossfadeDuration)
    \/ \E crossfadeDuration \in {Absent, Some(2)} :
          AudioApplyTransitions("Float32Array", MaxSegmentFrames, Some(10), 0, 5,
                                crossfadeDuration)

FrameBlendSpec == Init /\ [][FrameBlendNext]_vars

(***************************************************************************)
(* Candidate generation on its own: the lines of analyzeMedia from the     *)
(* similarity matrix to _findLoopCandidates, on frame buffers long enough  *)
(* for the algorithmic loop to find pairs.                                 *)
(***************************************************************************)
\* The frame counts explored: none of 60 or fewer frames admits a 2 s loop,
\* and 5 * minFrames is the first count at which a pair 2 s apart has a
\* similarity of 0.8.
CandidateFrameCounts ==
    {1, StubFrameCount, minFrames, minFrames + 1, 3 * StubFrameCount,
     2 * minFrames, 5 * minFrames}

\* the arguments of one analysis: the loaded frames, the options and the
\* advisory answer
CandidateInputs ==
    UNION {{[producer |-> "analysis input", frameCount |-> frameCount,
             options |-> options, suggestions |-> suggestions] :
               options \in OptionsPool, suggestions \in GeminiResponses(frameCount)} :
           frameCount \in CandidateFrameCounts}

CandidateInit ==
    /\ AnalyzerInit
    /\ RankIdle
    /\ ServiceIdle
    /\ result \in CandidateInputs

\* const loopCandidates = this._findLoopCandidates(similarityMatrix, geminiAnalysis)
FindLoopCandidates ==
    /\ result.producer = "analysis input"
    /\ result' = [result EXCEPT !.producer = "findLoopCandidates"] @@
                 [candidates |->
                    findLoopCandidates(calculateSimilarityMatrix(Frames(result.frameCount)),
                                       MatrixLength(Frames(result.frameCount)),
                                       result.suggestions)]
    /\ UNCHANGED <<analyzerVars, rankVars, serviceVars>>

CandidateNext == FindLoopCandidates

CandidateSpec == CandidateInit /\ [][CandidateNext]_vars

(***************************************************************************)
(* LoopOptimizer.processMedia on the one instance the server shares        *)
(***************************************************************************)
\* config.optimizationDefaults of _normalizeConfig, durations in seconds
optimizationDefaults ==
    [minLoopDuration |-> 3, maxLoopDuration |-> 10,
     preferredTransition |-> "crossfade"]

NoParameters == [field \in {} |-> NULL]

\* { ...this.config.optimizationDefaults, ...parameters }
NormalizedParameters(parameters) == parameters @@ optimizationDefaults

\* The parameters a caller passes: none, a window with its minimum above its
\* maximum, and another transition.
ParameterPool ==
    {NoParameters,
     [minLoopDuration |-> 10, maxLoopDuration |-> 3],
     [preferredTransition |-> "cut"]}

InvalidConfiguration(params) == params.minLoopDuration > params.maxLoopDuration

ProcessFrameCounts == {2, StubFrameCount}

\* mediaInput: a Blob or File with its type, an ArrayBuffer with the type its
\* header bytes stand for, or the plain { name, type, size, buffer } object
\* the server's upload handler passes.
MediaInputs ==
    {[kind |-> "Blob", type |-> "video/mp4", frames |-> n] : n \in ProcessFrameCounts}
    \cup {[kind |-> "File", type |-> "audio/mpeg", frames |-> 0],
          [kind |-> "Blob", type |-> NoString, frames |-> 0],
          [kind |-> "ArrayBuffer", type |-> "audio/wav", frames |-> 0],
          [kind |-> "object", type |-> "video/mp4", frames |-> StubFrameCount]}

\* _detectMediaType(mediaInput)
detectMediaType(mediaInput) ==
    IF mediaInput.kind \in {"Blob", "File"}
    THEN [status |-> "ok",
          value |-> IF mediaInput.type = NoString THEN "application/octet-stream"
                    ELSE mediaInput.type]
    ELSE IF mediaInput.kind = "ArrayBuffer"
    THEN [status |-> "ok", value |-> mediaInput.type]
    ELSE [status |-> "throw", value |-> "Unsupported media input type"]

\* mediaType.startsWith('video'), mediaType.startsWith('audio')
StartsWithVideo(mediaType) == mediaType \in {"video/mp4", "video/webm"}
StartsWithAudio(mediaType) == mediaType \in {"audio/mpeg", "audio/wav"}

\* A buffer of the analyzer together with the call whose loadMedia stored it;
\* a buffer the constructor left has no such call.
LoadedBy(buffer, c) == buffer @@ [loadedBy |-> c]
OwnerOf(buffer) ==
    IF buffer = NULL THEN 0
    ELSE IF "loadedBy" \in DOMAIN buffer THEN buffer.loadedBy ELSE 0

\* catch (error): throw new Error(`Media processing failed: ${error.message}`)
ProcessFailed(call, message) ==
    [call EXCEPT !.pc = "failed",
                 !.outcome = [status |-> "throw",
                              message |-> <<"Media processing failed: ", message>>]]

\* processMedia(mediaInput, parameters) up to await this.ready
ProcessMedia(c, mediaInput, parameters) ==
    /\ calls[c].pc = "idle"
    /\ calls' = [calls EXCEPT ![c] =
                    [NoCall EXCEPT !.pc = "ready",
                                   !.mediaInput = mediaInput,
                                   !.params = NormalizedParameters(parameters)]]
    /\ UNCHANGED <<analyzerVars, rankVars, transitionVars, fileVars, integrationVars>>

\* const mediaType = await this._detectMediaType(mediaInput)
DetectMediaType(c) ==
    /\ calls[c].pc = "ready"
    /\ LET detected == detectMediaType(calls[c].mediaInput)
       IN  calls' = [calls EXCEPT ![c] =
                        IF detected.status = "throw"
                        THEN ProcessFailed(calls[c], detected.value)
                        ELSE [calls[c] EXCEPT !.pc = "detected",
                                              !.mediaType = detected.value]]
    /\ UNCHANGED <<analyzerVars, rankVars, transitionVars, fileVars, integrationVars>>

\* await this.analyzer.loadMedia(mediaInput, mediaType): the buffer is stored
\* before loadMedia first waits.
ProcessLoadMedia(c) ==
    /\ calls[c].pc = "detected"
    /\ LET mediaType == calls[c].mediaType
       IN  IF StartsWithVideo(mediaType)
           THEN /\ frameBuffer' = LoadedBy(Frames(calls[c].mediaInput.frames), c)
                /\ calls' = [calls EXCEPT ![c].pc = "loaded"]
                /\ UNCHANGED audioBuffer
           ELSE IF StartsWithAudio(mediaType)
           THEN /\ audioBuffer' =
                      LoadedBy([sampleRate |-> DefaultSampleRate,
                                duration |-> StubAudioDuration, channels |-> 2], c)
                /\ calls' = [calls EXCEPT ![c].pc = "loaded"]
                /\ UNCHANGED frameBuffer
           ELSE /\ calls' = [calls EXCEPT ![c] =
                               ProcessFailed(calls[c],
                                   "Failed to load media: Unsupported media type")]
                /\ UNCHANGED <<frameBuffer, audioBuffer>>
    /\ UNCHANGED <<analysisResults, returned, rankVars, transitionVars, fileVars, integrationVars>>

\* analyzeMedia(options) up to the await of the advisory answer: the matrix is
\* built from the frame buffer of this moment, and so is the frameCount the
\* advisory service is asked about.
ProcessAnalyzeBegin(c) ==
    /\ calls[c].pc = "loaded"
    /\ calls' = [calls EXCEPT ![c] =
                    IF Falsy(frameBuffer) /\ Falsy(audioBuffer)
                    THEN ProcessFailed(calls[c], "No media loaded for analysis")
                    ELSE [calls[c] EXCEPT !.pc = "analyzing",
                                          !.matrixFrames = frameBuffer]]
    /\ UNCHANGED <<analyzerVars, rankVars, transitionVars, fileVars, integrationVars>>

\* The rest of analyzeMedia: the candidates come from the matrix built before
\* the await, mediaInfo from the buffers as they are after it.
AnalysisAfterAwait(matrixFrames, options, suggestions) ==
    LET similarityMatrix == calculateSimilarityMatrix(matrixFrames)
        loopCandidates == findLoopCandidates(similarityMatrix,
                                             MatrixLength(matrixFrames), suggestions)
        ranked == rankLoopCandidates(loopCandidates)
    IN  [inputOptions |-> options,
         mediaInfo |->
            [frameCount |-> IF Falsy(frameBuffer) THEN 0 ELSE frameBuffer.length,
             duration |-> IF Falsy(frameBuffer)
                          THEN (IF Falsy(audioBuffer) THEN 0
                                ELSE audioBuffer.duration * frameRate)
                          ELSE frameBuffer.length],
         loopCandidates |-> ranked,
         bestLoopPoint |-> IF Len(ranked) = 0 THEN UNDEFINED ELSE ranked[1],
         candidatesFrom |-> OwnerOf(matrixFrames),
         mediaInfoFrom |-> IF Falsy(frameBuffer) THEN OwnerOf(audioBuffer)
                           ELSE OwnerOf(frameBuffer)]

\* analyzeMedia(options) from the advisory answer on; when the client fails
\* _analyzeWithGemini answers with no suggestions.
ProcessAnalyzeEnd(c, answered) ==
    /\ calls[c].pc = "analyzing"
    /\ LET options == [minLoopDuration |-> calls[c].params.minLoopDuration,
                       maxLoopDuration |-> calls[c].params.maxLoopDuration]
           suggestions ==
               IF answered
               THEN <<StubSuggestion(MatrixLength(calls[c].matrixFrames))>>
               ELSE << >>
           analysis == AnalysisAfterAwait(calls[c].matrixFrames, options, suggestions)
       IN  /\ analysisResults' = analysis
           /\ calls' = [calls EXCEPT ![c].pc = "analyzed", ![c].analysis = analysis]
    /\ UNCHANGED <<frameBuffer, audioBuffer, returned, rankVars, transitionVars, fileVars, integrationVars>>

\* The rest of processMedia: optimizeTransition, generateOutput and the
\* returned object; times in frames of 1/30 s, seamlessScore = score * 100.
ProcessReturn(c) ==
    /\ calls[c].pc = "analyzed"
    /\ LET analysis == calls[c].analysis
           loopPoint == analysis.bestLoopPoint
           transitionType == calls[c].params.preferredTransition
       IN  calls' = [calls EXCEPT ![c] =
              IF loopPoint = UNDEFINED
              THEN ProcessFailed(calls[c], "TypeError")
              ELSE [calls[c] EXCEPT
                      !.pc = "done",
                      !.outcome =
                         [status |-> "ok",
                          inputParameters |-> calls[c].params,
                          mediaInfo |-> [type |-> calls[c].mediaType,
                                         duration |-> analysis.mediaInfo.duration],
                          outputDuration |-> loopPoint.endTime - loopPoint.startTime,
                          loopPoints |-> [start |-> loopPoint.startTime,
                                          end |-> loopPoint.endTime],
                          transitionPoints |->
                             <<[timestamp |-> loopPoint.endTime,
                                duration |-> OptimizedDuration(transitionType),
                                type |-> transitionType]>>,
                          seamlessScore |-> Rat(100 * loopPoint.score.num,
                                                loopPoint.score.den),
                          artifactRating |-> 92]]]
    /\ UNCHANGED <<analyzerVars, rankVars, transitionVars, fileVars, integrationVars>>

ProcessNext ==
    \/ \E c \in Callers, mediaInput \in MediaInputs, parameters \in ParameterPool :
          ProcessMedia(c, mediaInput, parameters)
    \/ \E c \in Callers : DetectMediaType(c)
    \/ \E c \in Callers : ProcessLoadMedia(c)
    \/ \E c \in Callers : ProcessAnalyzeBegin(c)
    \/ \E c \in Callers, answered \in BOOLEAN : ProcessAnalyzeEnd(c, answered)
    \/ \E c \in Callers : ProcessReturn(c)

ProcessSpec == Init /\ [][ProcessNext]_vars

(***************************************************************************)
(* FirebaseIntegration: sign-in state and saveResults                      *)
(***************************************************************************)
\* What a call on the integration other than saveResults returned or threw
FirebaseReturned(op, status, value) == [op |-> op, status |-> status, value |-> value]

\* initialize(): the simulated SDK objects; auth starts with no current user.
\* db, storage and functions are there exactly while initialized is true.
initialize(fb) ==
    IF fb.initialized THEN fb
    ELSE [fb EXCEPT !.initialized = TRUE, !.auth = [currentUser |-> NULL]]

\* getCurrentUser()
getCurrentUser(fb) ==
    IF ~fb.initialized \/ fb.auth.currentUser = NULL THEN NULL
    ELSE fb.auth.currentUser

SignedIn(fb) == getCurrentUser(fb) # NULL

\* A set, put or update the store receives, with whether a user was signed in
\* at that moment.
Write(fb, op) == [op |-> op, signedIn |-> SignedIn(fb)]

\* initialize() called by a client
Initialize ==
    /\ firebase' = [initialize(firebase) EXCEPT
                       !.returned = FirebaseReturned("initialize", "ok", "true")]
    /\ UNCHANGED exceptFirebase

\* auth.signInWithEmailAndPassword(email, password) and the rest of signIn
SignedInWith(fb, credentials) ==
    IF fb.auth = NULL
    THEN [fb EXCEPT !.returned =
             FirebaseReturned("signIn", "throw", "Authentication failed: TypeError")]
    ELSE IF credentials = "valid"
    THEN [fb EXCEPT !.auth.currentUser = [uid |-> "user123"],
                    !.returned = FirebaseReturned("signIn", "ok", "user123")]
    ELSE [fb EXCEPT !.returned =
             FirebaseReturned("signIn", "throw", "Authentication failed: Invalid credentials")]

\* signIn(email, password): with the integration initialized it signs in at
\* once; otherwise it initializes and waits before it signs in.
SignIn(credentials) ==
    /\ firebase.returned # FirebaseReturned("signIn", "await", credentials)
    /\ firebase' =
          IF firebase.initialized THEN SignedInWith(firebase, credentials)
          ELSE [initialize(firebase) EXCEPT
                   !.returned = FirebaseReturned("signIn", "await", credentials)]
    /\ UNCHANGED exceptFirebase

\* signIn after await this.initialize()
SignInAfterInitialize ==
    /\ firebase.returned.op = "signIn" /\ firebase.returned.status = "await"
    /\ firebase' = SignedInWith(firebase, firebase.returned.value)
    /\ UNCHANGED exceptFirebase

\* signOut()
SignOut ==
    /\ firebase' =
          IF ~firebase.initialized
          THEN [firebase EXCEPT !.returned = FirebaseReturned("signOut", "ok", "false")]
          ELSE [firebase EXCEPT !.auth.currentUser = NULL,
                                !.returned = FirebaseReturned("signOut", "ok", "true")]
    /\ UNCHANGED exceptFirebase

\* disconnect()
Disconnect ==
    /\ firebase' = [firebase EXCEPT !.initialized = FALSE, !.auth = NULL,
                                    !.returned = FirebaseReturned("disconnect", "ok", NoString)]
    /\ UNCHANGED exceptFirebase

\* saveResults from getCurrentUser() to the await of resultRef.set(...)
CheckedAndSet(fb, hasData) ==
    IF getCurrentUser(fb) = NULL
    THEN [fb EXCEPT !.save = [pc |-> "thrown", hasData |-> hasData,
                              message |-> "User must be authenticated to save results"]]
    ELSE [fb EXCEPT !.writes = Append(fb.writes, Write(fb, "set")),
                    !.save = [pc |-> "set", hasData |-> hasData,
                              user |-> getCurrentUser(fb)]]

\* saveResults(results): results.output.data is there or not. The writes
\* recorded are those of the call under way or last made.
SaveResults(hasData) ==
    /\ firebase.save.pc \in {"idle", "thrown", "returned"}
    /\ LET fresh == [firebase EXCEPT !.writes = << >>]
       IN  firebase' =
              IF firebase.initialized THEN CheckedAndSet(fresh, hasData)
              ELSE [initialize(fresh) EXCEPT
                       !.save = [pc |-> "initialize", hasData |-> hasData]]
    /\ UNCHANGED exceptFirebase

\* saveResults after await this.initialize()
SaveAfterInitialize ==
    /\ firebase.save.pc = "initialize"
    /\ firebase' = CheckedAndSet(firebase, firebase.save.hasData)
    /\ UNCHANGED exceptFirebase

\* await resultRef.update({'outputInfo.url': mediaUrl}), up to its await
Updated(fb) ==
    [fb EXCEPT !.writes = Append(fb.writes, Write(fb, "update")),
               !.save.pc = "update"]

\* saveResults after await resultRef.set(...): with data, the upload through
\* this.storage (null after a disconnect), without, the update.
SaveAfterSet ==
    /\ firebase.save.pc = "set"
    /\ firebase' =
          IF ~firebase.save.hasData THEN Updated(firebase)
          ELSE IF ~firebase.initialized
          THEN [firebase EXCEPT !.save = [pc |-> "thrown", hasData |-> TRUE,
                                          message |-> "Failed to save results: TypeError"]]
          ELSE [firebase EXCEPT !.writes = Append(firebase.writes, Write(firebase, "put")),
                                !.save.pc = "put"]
    /\ UNCHANGED exceptFirebase

\* saveResults after the upload and getDownloadURL()
SaveAfterPut ==
    /\ firebase.save.pc = "put"
    /\ firebase' = Updated(firebase)
    /\ UNCHANGED exceptFirebase

\* saveResults after await resultRef.update(...): return { id, url, path }
SaveAfterUpdate ==
    /\ firebase.save.pc = "update"
    /\ firebase' = [firebase EXCEPT !.save.pc = "returned"]
    /\ UNCHANGED exceptFirebase

FirebaseNext ==
    \/ Initialize
    \/ \E credentials \in {"valid", "invalid"} : SignIn(credentials)
    \/ SignInAfterInitialize
    \/ SignOut
    \/ Disconnect
    \/ \E hasData \in BOOLEAN : SaveResults(hasData)
    \/ SaveAfterInitialize
    \/ SaveAfterSet
    \/ SaveAfterPut
    \/ SaveAfterUpdate

FirebaseSpec == Init /\ [][FirebaseNext]_vars

(***************************************************************************)
(* BatchJob of the server-side LoopOptimizer                               *)
(***************************************************************************)
\* batchParameters of createBatchJob: left out, or with saveResults
BatchParameters == {UNDEFINED, [saveResults |-> FALSE], [saveResults |-> TRUE]}

\* The media a caller adds: a File, a Blob, or null
BatchMedia == {[kind |-> "File", name |-> "a.mp4"], [kind |-> "Blob"], NULL}

\* media instanceof File ? media.name : 'unknown'
MediaLabel(media) ==
    IF media # NULL /\ media.kind = "File" THEN media.name ELSE "unknown"

\* Whether processMedia(mediaInput, parameters) of the optimizer throws: the
\* destructuring of parameters fails when they are undefined, and
\* mediaInput.name when the results are saved for a null input; the engines
\* it awaits always answer.
ProcessMediaThrows(mediaInput, parameters) ==
    \/ parameters = UNDEFINED
    \/ parameters.saveResults /\ mediaInput = NULL

\* The entry process() pushes for one item of the queue
ResultEntry(media, parameters) ==
    IF ProcessMediaThrows(media, parameters)
    THEN [status |-> "error", media |-> MediaLabel(media),
          error |-> "Failed to process media: TypeError"]
    ELSE [status |-> "success", media |-> MediaLabel(media), result |-> "result"]

\* The loop of process() with the catch left out: the first processMedia
\* that throws ends the call with the results gathered so far.
AfterSettledUncaught(run, job) ==
    LET media == job.mediaQueue[run.index]
        results == Append(run.results, ResultEntry(media, job.parameters))
    IN  IF ProcessMediaThrows(media, job.parameters)
        THEN [pc |-> "returned", index |-> run.index, results |-> run.results,
              queueLength |-> Len(job.mediaQueue)]
        ELSE IF run.index < Len(job.mediaQueue)
        THEN [run EXCEPT !.index = run.index + 1, !.results = results]
        ELSE [pc |-> "returned", index |-> run.index, results |-> results,
              queueLength |-> Len(job.mediaQueue)]

\* The loop of process() from the moment the awaited processMedia settles: the
\* entry is pushed, and the iterator of the queue, which sees the items added
\* meanwhile, gives the next item or ends the loop.
AfterSettled(run, job) ==
    LET media == job.mediaQueue[run.index]
        results == Append(run.results, ResultEntry(media, job.parameters))
    IN  IF run.index < Len(job.mediaQueue)
        THEN [run EXCEPT !.index = run.index + 1, !.results = results]
        ELSE [pc |-> "returned", index |-> run.index, results |-> results,
              queueLength |-> Len(job.mediaQueue)]

\* optimizer.createBatchJob(batchParameters)
CreateBatchJob(parameters) ==
    /\ \A r \in Runs : batch.runs[r].pc # "awaiting"
    /\ batch' = NewBatchJob(parameters)
    /\ UNCHANGED exceptBatch

\* addMedia(media)
AddMedia(media) ==
    /\ batch.created
    /\ Len(batch.mediaQueue) < MaxQueue
    /\ batch' = [batch EXCEPT !.mediaQueue = Append(batch.mediaQueue, media)]
    /\ UNCHANGED exceptBatch

\* process() up to its first await: with an empty queue it returns [] at once.
BatchProcess(r) ==
    /\ batch.created
    /\ batch.runs[r].pc # "awaiting"
    /\ batch' = [batch EXCEPT !.runs[r] =
                    IF batch.mediaQueue = << >>
                    THEN [NoRun EXCEPT !.pc = "returned"]
                    ELSE [NoRun EXCEPT !.pc = "awaiting", !.index = 1]]
    /\ UNCHANGED exceptBatch

\* The processMedia call that process() awaits has settled.
BatchSettle(r) ==
    /\ batch.runs[r].pc = "awaiting"
    /\ batch' = [batch EXCEPT !.runs[r] = AfterSettled(batch.runs[r], batch)]
    /\ UNCHANGED exceptBatch

BatchNext ==
    \/ \E parameters \in BatchParameters : CreateBatchJob(parameters)
    \/ \E media \in BatchMedia : AddMedia(media)
    \/ \E r \in Runs : BatchProcess(r)
    \/ \E r \in Runs : BatchSettle(r)

BatchSpec == Init /\ [][BatchNext]_vars

(***************************************************************************)
(* blendFrames calls of several requests under way together: every call    *)
(* works in the one directory ./temp/blend.                                *)
(***************************************************************************)
\* The loop segment of request r: its frames carry the request they are of.
RunVideo(r, totalFrames) == [k \in 1..totalFrames |-> [unit |-> k, run |-> r]]

\* The segment lengths and blend counts of the requests; each leaves a main
\* segment of at least one frame.
RunInputs == {<<3, 1>>, <<5, 2>>}

NoTempFiles == [start_frames |-> NoFiles, end_frames |-> NoFiles, blended_frames |-> NoFiles]

\* blendFrames(inputPath, outputPath, blendFrameCount) up to await getVideoInfo
RunBlendFrames(r, totalFrames, blendFrameCount) ==
    /\ blendRuns[r].pc \in {"idle", "done", "thrown"}
    /\ blendRuns' = [blendRuns EXCEPT ![r] =
                        [NoBlendRun EXCEPT !.pc = "info",
                                           !.totalFrames = totalFrames,
                                           !.blendFrameCount = blendFrameCount]]
    /\ UNCHANGED <<tempFiles, result, exceptFilesAndRuns>>

\* await extractFrames(inputPath, endFramesDir, duration - blendDuration, blendDuration)
RunExtractEndFrames(r) ==
    /\ blendRuns[r].pc = "info"
    /\ LET run == blendRuns[r]
           video == RunVideo(r, run.totalFrames)
       IN  tempFiles' = [tempFiles EXCEPT !.end_frames =
                            WriteFrames(@, extractFrames(video,
                               run.totalFrames - run.blendFrameCount, run.blendFrameCount))]
    /\ blendRuns' = [blendRuns EXCEPT ![r].pc = "end"]
    /\ UNCHANGED <<result, exceptFilesAndRuns>>

\* await extractFrames(inputPath, startFramesDir, 0, blendDuration)
RunExtractStartFrames(r) ==
    /\ blendRuns[r].pc = "end"
    /\ LET run == blendRuns[r]
           video == RunVideo(r, run.totalFrames)
       IN  tempFiles' = [tempFiles EXCEPT !.start_frames =
                            WriteFrames(@, extractFrames(video, 0, run.blendFrameCount))]
    /\ blendRuns' = [blendRuns EXCEPT ![r].pc = "start"]
    /\ UNCHANGED <<result, exceptFilesAndRuns>>

\* await createBlendedFrames(startFramesDir, endFramesDir, blendedFramesDir,
\* blendFrameCount): it reads the two directories as they are now.
RunCreateBlendedFrames(r) ==
    /\ blendRuns[r].pc = "start"
    /\ LET run == blendRuns[r]
           startFrames == tempFiles.start_frames
           endFrames == tempFiles.end_frames
           blended == createBlendedFrames(startFrames, endFrames, run.blendFrameCount)
       IN  IF Len(startFrames) < run.blendFrameCount \/ Len(endFrames) < run.blendFrameCount
           THEN /\ blendRuns' = [blendRuns EXCEPT
                                   ![r].pc = "thrown",
                                   ![r].outcome = [status |-> "throw",
                                       message |-> "Not enough frames for blending"]]
                /\ UNCHANGED tempFiles
           ELSE /\ blendRuns' = [blendRuns EXCEPT ![r].pc = "blended",
                                                  ![r].blended = blended]
                /\ tempFiles' = [tempFiles EXCEPT !.blended_frames = WriteFrames(@, blended)]
    /\ UNCHANGED <<result, exceptFilesAndRuns>>

\* extractMainSegment, createVideoFromFrames on the blended frames directory
\* as it is now, and concatenateSegments; ffmpeg fails on a directory without
\* frames.
RunConcatenateSegments(r) ==
    /\ blendRuns[r].pc = "blended"
    /\ LET run == blendRuns[r]
           video == RunVideo(r, run.totalFrames)
           mainSegment == extractFrames(video, run.blendFrameCount,
                                        run.totalFrames - 2 * run.blendFrameCount)
       IN  blendRuns' = [blendRuns EXCEPT ![r] =
              IF tempFiles.blended_frames = NoFiles
              THEN [run EXCEPT !.pc = "thrown",
                               !.outcome = [status |-> "throw", message |-> "ffmpeg error"]]
              ELSE [run EXCEPT !.pc = "concatenated",
                               !.outcome = [status |-> "ok",
                                            output |-> tempFiles.blended_frames \o mainSegment]]]
    /\ UNCHANGED <<tempFiles, result, exceptFilesAndRuns>>

\* await cleanupTempFiles(tempDir); return true
RunCleanupTempFiles(r) ==
    /\ blendRuns[r].pc = "concatenated"
    /\ tempFiles' = NoTempFiles
    /\ blendRuns' = [blendRuns EXCEPT ![r].pc = "done"]
    /\ UNCHANGED <<result, exceptFilesAndRuns>>

ConcurrentBlendNext ==
    \/ \E r \in BlendRuns : \E input \in RunInputs : RunBlendFrames(r, input[1], input[2])
    \/ \E r \in BlendRuns : RunExtractEndFrames(r)
    \/ \E r \in BlendRuns : RunExtractStartFrames(r)
    \/ \E r \in BlendRuns : RunCreateBlendedFrames(r)
    \/ \E r \in BlendRuns : RunConcatenateSegments(r)
    \/ \E r \in BlendRuns : RunCleanupTempFiles(r)

ConcurrentBlendSpec == Init /\ [][ConcurrentBlendNext]_vars

(***************************************************************************)
(* LoopOptimizer.processMedia of loop-optimizer.js (src/unnamed/part_005),  *)
(* which hands the advisory suggestion to LoopProcessor.createLoop          *)
(***************************************************************************)
\* loopSuggestions.points as processMedia returns it
ReturnedLoopPoints(loopSuggestions) ==
    IF loopSuggestions.points # Absent THEN ValueOf(loopSuggestions.points)
    ELSE UNDEFINED

\* processMedia(mediaInput, parameters): call.loopSuggestions is what
\* suggestLoopPoints answered, call.loopParameters parameters.loopParameters.
LoopProcessMedia(call) ==
    LET processedLoop == createLoop(call.mediaType, call.hasMedia, call.loopSuggestions,
                                    call.hasParameters, call.loopParameters,
                                    call.hasSignificantMotion)
    IN  /\ result' =
              IF processedLoop.status = "throw"
              THEN [producer |-> "processMedia", call |-> call, status |-> "throw",
                    message |-> <<"Media processing failed: ">> \o processedLoop.message]
              ELSE [producer |-> "processMedia", call |-> call, status |-> "ok",
                    processedLoop |-> processedLoop,
                    loopPoints |-> ReturnedLoopPoints(call.loopSuggestions),
                    transitionPoints |-> processedLoop.transitions]
        /\ UNCHANGED <<analyzerVars, rankVars, serviceVars>>

LoopProcessNext ==
    \/ \E call \in CreateLoopCalls : LoopProcessMedia(call)
    \/ \E call \in CreateLoopCalls :
          CreateLoop(call.mediaType, call.hasMedia, call.loopSuggestions,
                     call.hasParameters, call.loopParameters, call.hasSignificantMotion)

LoopProcessSpec == Init /\ [][LoopProcessNext]_vars

(***************************************************************************)
(* Recommended loop points of the analyze controller (src/unnamed/part_001) *)
(* and of gemini-service.js.  Confidences are in tenths, times in seconds.  *)
(***************************************************************************)
LoopPoint(startTime, endTime, confidence, reason) ==
    [confidence |-> confidence, startTime |-> startTime, endTime |-> endTime,
     reason |-> reason]

\* points.sort((a, b) => b.confidence - a.confidence), a stable sort
ConfidencePosition(list, k) ==
    1 + Cardinality({i \in 1..Len(list) :
                        \/ list[i].confidence > list[k].confidence
                        \/ i < k /\ list[i].confidence = list[k].confidence})

SortByConfidence(list) ==
    [p \in 1..Len(list) |->
        list[CHOOSE k \in 1..Len(list) : ConfidencePosition(list, k) = p]]

\* extractLoopPointsFromGeminiResponse(text, frameAnalysis, audioAnalysis):
\* matches are the time ranges the regular expression finds in the text.
extractLoopPointsFromGeminiResponse(matches, frameAnalysis) ==
    LET loopPoints ==
            [k \in 1..Len(matches) |->
                LoopPoint(matches[k].startTime, matches[k].endTime, 9 - (k - 1),
                          "Gemini AI recommendation")]
    IN  IF Len(loopPoints) = 0 /\ frameAnalysis # NULL
        THEN Slice(frameAnalysis.potentialLoopPoints, 0, 3)
        ELSE loopPoints

\* The frame and audio points put together, sorted, the first five
CombinedLoopPoints(frameAnalysis, audioAnalysis) ==
    LET framePoints == IF frameAnalysis = NULL THEN << >>
                       ELSE frameAnalysis.potentialLoopPoints
        silences == IF audioAnalysis = NULL THEN << >> ELSE audioAnalysis.silencePoints
        audioPoints == [k \in 1..Len(silences) |->
                          LoopPoint(silences[k].start, silences[k].end,
                                    silences[k].confidence, "Audio silence")]
    IN  Slice(SortByConfidence(framePoints \o audioPoints), 0, 5)

\* determineRecommendedLoopPoints(frameAnalysis, audioAnalysis, geminiAnalysis):
\* an array, empty or not, is truthy.
determineRecommendedLoopPoints(frameAnalysis, audioAnalysis, geminiAnalysis) ==
    IF geminiAnalysis # NULL THEN geminiAnalysis.recommendedLoopPoints
    ELSE CombinedLoopPoints(frameAnalysis, audioAnalysis)

\* The largest number of time ranges in an advisory text
MaxMatches == 11
MatchCounts == {0, 1, 6, MaxMatches}
Matches(count) == [k \in 1..count |-> [startTime |-> k, endTime |-> k + 3]]

\* potentialLoopPoints as findPotentialLoopPoints leaves them: sorted
FramePointLists ==
    {<< >>,
     <<LoopPoint(0, 2, 9, "Visual similarity")>>,
     <<LoopPoint(1, 3, 6, "Scene transition"), LoopPoint(0, 4, 2, "Visual similarity")>>,
     <<LoopPoint(0, 2, 10, "Visual similarity"), LoopPoint(1, 4, 9, "Scene transition"),
       LoopPoint(2, 5, 9, "Visual similarity"), LoopPoint(0, 5, 8, "Visual similarity")>>,
     <<LoopPoint(0, 2, 10, "Visual similarity"), LoopPoint(1, 4, 9, "Scene transition"),
       LoopPoint(2, 5, 9, "Visual similarity"), LoopPoint(0, 5, 8, "Visual similarity"),
       LoopPoint(3, 6, 8, "Visual similarity"), LoopPoint(1, 6, 7, "Scene transition")>>}
FrameAnalyses == {[potentialLoopPoints |-> list] : list \in FramePointLists}

Silence(start, end, confidence) == [confidence |-> confidence, start |-> start, end |-> end]

\* silencePoints in the order ffmpeg reports them
SilenceLists ==
    {<< >>,
     <<Silence(4, 6, 10)>>,
     <<Silence(1, 2, 3), Silence(4, 6, 10), Silence(8, 9, 7)>>,
     <<Silence(1, 2, 5), Silence(3, 4, 5)>>}
AudioAnalyses == {NULL} \cup {[silencePoints |-> list] : list \in SilenceLists}

\* analyzeWithGemini: null when the service is not configured or fails
GeminiAnalyses(frameAnalysis) ==
    {NULL} \cup
    {[matches |-> count,
      recommendedLoopPoints |->
         extractLoopPointsFromGeminiResponse(Matches(count), frameAnalysis)] :
        count \in MatchCounts}

\* analysis.recommendedLoopPoints of the analyze controller
DetermineRecommendedLoopPoints(frameAnalysis, audioAnalysis, geminiAnalysis) ==
    /\ result' = [producer |-> "determineRecommendedLoopPoints",
                  frameAnalysis |-> frameAnalysis,
                  audioAnalysis |-> audioAnalysis,
                  geminiAnalysis |-> geminiAnalysis,
                  points |-> determineRecommendedLoopPoints(frameAnalysis,
                                 audioAnalysis, geminiAnalysis)]
    /\ UNCHANGED <<analyzerVars, rankVars, serviceVars>>

RecommendNext ==
    \E frameAnalysis \in FrameAnalyses : \E audioAnalysis \in AudioAnalyses :
       \E geminiAnalysis \in GeminiAnalyses(frameAnalysis) :
          DetermineRecommendedLoopPoints(frameAnalysis, audioAnalysis, geminiAnalysis)

RecommendSpec == Init /\ [][RecommendNext]_vars

(***************************************************************************)
(* Potential loop points of the frame analysis                             *)
(* (src/src/services/frameAnalysisService.js).  Times are rationals in      *)
(* seconds, motions in tenths, frame differences and confidences in         *)
(* hundredths.                                                              *)
(***************************************************************************)
minLoopDuration == 1
maxLoopDuration == 10

\* frameMetrics[j].time - frameMetrics[i].time for times of one sample rate
TimeBetween(from, to) == Rat(to.num - from.num, from.den)

\* compareFrames(frame1, frame2): base is the drawn histogram and edge part
compareFrames(base, frame1, frame2) ==
    base + 3 * (IF frame2.motion >= frame1.motion THEN frame2.motion - frame1.motion
                ELSE frame1.motion - frame2.motion)

\* The pairs (i, j) of indices from 0 in the order of the nested loops
IndexPairs(n) == [k \in 1..(n * n) |-> <<(k - 1) \div n, (k - 1) % n>>]

findPotentialLoopPoints(frameMetrics, sceneChanges, base, options) ==
    LET n == Len(frameMetrics)
        m == Len(sceneChanges)
        LowMotion(frame) == ~(frame.motion > options.motionThreshold * 2)
        first == Floor(minLoopDuration * options.sampleRate.num, options.sampleRate.den)
        Similarity(i, j) ==
            100 - compareFrames(base[i + 1][j + 1], frameMetrics[i + 1], frameMetrics[j + 1])
        Visual(pair) ==
            LET i == pair[1]
                j == pair[2]
            IN  /\ LowMotion(frameMetrics[i + 1])
                /\ j >= i + first
                /\ RatLE(TimeBetween(frameMetrics[i + 1].time, frameMetrics[j + 1].time),
                         Rat(maxLoopDuration, 1))
                /\ LowMotion(frameMetrics[j + 1])
                /\ Similarity(i, j) > 80
        visualPairs == SelectSeq(IndexPairs(n), Visual)
        Scene(pair) ==
            LET i == pair[1]
                j == pair[2]
                duration == TimeBetween(sceneChanges[i + 1].time, sceneChanges[j + 1].time)
            IN  /\ j >= i + 1
                /\ RatLE(Rat(minLoopDuration, 1), duration)
                /\ RatLE(duration, Rat(maxLoopDuration, 1))
        scenePairs == SelectSeq(IndexPairs(m), Scene)
        potentialPoints ==
            [k \in 1..Len(visualPairs) |->
                LoopPoint(frameMetrics[visualPairs[k][1] + 1].time,
                          frameMetrics[visualPairs[k][2] + 1].time,
                          Similarity(visualPairs[k][1], visualPairs[k][2]),
                          "Visual similarity")] \o
            [k \in 1..Len(scenePairs) |->
                LoopPoint(sceneChanges[scenePairs[k][1] + 1].time,
                          sceneChanges[scenePairs[k][2] + 1].time,
                          (Min(sceneChanges[scenePairs[k][1] + 1].confidence,
                               sceneChanges[scenePairs[k][2] + 1].confidence) * 9) \div 10,
                          "Scene transition")]
    IN  SortByConfidence(potentialPoints)

\* The largest number of frame files ffmpeg extracts
MaxFrameFiles == 4

\* options.frameSampleRate || 1, frames per second
FrameSampleRates == {Rat(1, 4), Rat(1, 2), Rat(1, 1), Rat(3, 2), Rat(2, 1)}

\* options.motionThreshold || 0.1, in tenths
MotionThresholds == {1, 3}

\* simulateMotionDetection(i) for the first frames, in tenths
MotionValues == {5, 7}

\* The histogram and edge part of a frame difference, below 21 hundredths
BasePatterns(n) ==
    {[i \in 1..n |-> [j \in 1..n |-> 0]],
     [i \in 1..n |-> [j \in 1..n |-> 20]],
     [i \in 1..n |-> [j \in 1..n |-> IF (i + j) % 2 = 0 THEN 20 ELSE 0]]}

\* frameMetrics of processFrames: frameTime = i / options.sampleRate, and the
\* first frame has motion 0
FrameMetrics(n, sampleRate) ==
    {[k \in 1..n |-> [time |-> Rat((k - 1) * sampleRate.den, sampleRate.num),
                      motion |-> IF k = 1 THEN 0 ELSE motions[k]]] :
        motions \in [1..n -> MotionValues]}

\* sceneChanges of processFrames: frames after the first whose difference
\* from the frame before is above the threshold, so the confidence is 1.0
SceneChanges(frameMetrics) ==
    {LET changed == SelectSeq([k \in 1..Len(frameMetrics) |-> k], LAMBDA k : k \in frames)
     IN  [k \in 1..Len(changed) |-> [time |-> frameMetrics[changed[k]].time,
                                     confidence |-> 100]] :
        frames \in SUBSET (2..Len(frameMetrics))}

FrameInputs ==
    UNION {UNION {{[producer |-> "frame input", frameMetrics |-> frameMetrics,
                    sceneChanges |-> sceneChanges, base |-> base,
                    options |-> [sampleRate |-> sampleRate,
                                 motionThreshold |-> motionThreshold]] :
                      sceneChanges \in SceneChanges(frameMetrics),
                      base \in BasePatterns(Len(frameMetrics)),
                      motionThreshold \in MotionThresholds} :
                  frameMetrics \in FrameMetrics(n, sampleRate)} :
           n \in 1..MaxFrameFiles, sampleRate \in FrameSampleRates}

FramePointInit ==
    /\ AnalyzerInit
    /\ RankIdle
    /\ ServiceIdle
    /\ result \in FrameInputs

\* const potentialLoopPoints = findPotentialLoopPoints(frameMetrics,
\* sceneChanges, motionActivity, options)
FindPotentialLoopPoints ==
    /\ result.producer = "frame input"
    /\ result' = [result EXCEPT !.producer = "findPotentialLoopPoints"] @@
                 [potentialLoopPoints |->
                    findPotentialLoopPoints(result.frameMetrics, result.sceneChanges,
                                            result.base, result.options)]
    /\ UNCHANGED <<analyzerVars, rankVars, serviceVars>>

FramePointNext == FindPotentialLoopPoints

FramePointSpec == FramePointInit /\ [][FramePointNext]_vars

(***************************************************************************)
(* The web page (LoopOptimizerUI of src/unnamed/part_005, src/ui/index.html) *)
(* A click on a control of the page needs the processing modal hidden: its   *)
(* overlay covers the page, and a click on the overlay closes the modal.     *)
(***************************************************************************)
\* Files validateFile accepts
UiFiles == {[name |-> "a.mp4"], [name |-> "b.mp4"]}

\* The calls of startOptimization that are between their start and their end
Pending(r) == ui.optimizations[r].pc \in {"first delay", "second delay"}

\* closeAllModals()
closeAllModals(page) == [page EXCEPT !.processingModalHidden = TRUE]

\* displayResult(result)
displayResult(page) == [page EXCEPT !.resultCardHidden = FALSE]

\* resetUI()
resetUI(page) ==
    [page EXCEPT !.currentFile = NULL, !.resultCardHidden = TRUE,
                 !.currentResult = NULL, !.resets = @ + 1]

\* mediaFileInput change, or a drop on the upload area
HandleFileSelect(file) ==
    /\ ui.processingModalHidden
    /\ ui.currentFile # file
    /\ ui' = [ui EXCEPT !.currentFile = file]
    /\ UNCHANGED exceptUi

\* optimizeBtn click: startOptimization() up to its first await
StartOptimization(r) ==
    /\ ui.processingModalHidden
    /\ ui.optimizations[r].pc = "idle"
    /\ \A q \in Optimizations : q < r => ui.optimizations[q].pc # "idle"
    /\ IF ui.currentFile = NULL
       THEN /\ ui.alert # "Please select a media file first"
            /\ ui' = [ui EXCEPT !.alert = "Please select a media file first"]
       ELSE ui' = [ui EXCEPT !.processingModalHidden = FALSE,
                             !.optimizations[r] = [pc |-> "first delay",
                                                   resetsAtStart |-> ui.resets]]
    /\ UNCHANGED exceptUi

\* after await new Promise(resolve => setTimeout(resolve, 2000))
AfterFirstDelay(r) ==
    /\ ui.optimizations[r].pc = "first delay"
    /\ \A q \in Optimizations : q < r => ui.optimizations[q].pc # "first delay"
    /\ ui' = [ui EXCEPT !.optimizations[r].pc = "second delay"]
    /\ UNCHANGED exceptUi

\* after await new Promise(resolve => setTimeout(resolve, 1500)):
\* simulateOptimizationResult(this.currentFile, params) reads the file now, and
\* URL.createObjectURL(null) throws into the catch
AfterSecondDelay(r) ==
    /\ ui.optimizations[r].pc = "second delay"
    /\ \A q \in Optimizations : q < r => ~Pending(q)
    /\ IF ui.currentFile = NULL
       THEN ui' = closeAllModals([ui EXCEPT
                     !.alert = "An error occurred during optimization",
                     !.optimizations[r].pc = "failed"])
       ELSE ui' = displayResult(closeAllModals([ui EXCEPT
                     !.currentResult = [file |-> ui.currentFile, optimization |-> r,
                                        resetsAtStart |-> ui.optimizations[r].resetsAtStart],
                     !.optimizations[r].pc = "done"]))
    /\ UNCHANGED exceptUi

\* a click on the overlay of the processing modal
OverlayClick ==
    /\ ~ui.processingModalHidden
    /\ ui' = closeAllModals(ui)
    /\ UNCHANGED exceptUi

\* createNewBtn click; the button is in the result card
ResetUI ==
    /\ ui.processingModalHidden
    /\ ~ui.resultCardHidden
    /\ ui.resets < MaxResets
    /\ ui' = resetUI(ui)
    /\ UNCHANGED exceptUi

UiNext ==
    \/ \E file \in UiFiles : HandleFileSelect(file)
    \/ \E r \in Optimizations :
          \/ StartOptimization(r)
          \/ AfterFirstDelay(r)
          \/ AfterSecondDelay(r)
    \/ OverlayClick
    \/ ResetUI

UiSpec == Init /\ [][UiNext]_vars

(***************************************************************************)
(* Properties                                                              *)
(***************************************************************************)
Analyzed == returned.op = "analyzeMedia" /\ returned.status = "ok"

\* C1: every candidate analyzeMedia returns in loopCandidates has
\* duration = endTime - startTime and
\* options.minLoopDuration <= duration <= options.maxLoopDuration.
C1_DurationWithinOptions ==
    Analyzed =>
        \A k \in 1..Len(analysisResults.loopCandidates) :
            LET c == analysisResults.loopCandidates[k]
                options == analysisResults.inputOptions
            IN  /\ c.duration = c.endTime - c.startTime
                /\ options.minLoopDuration * frameRate <= c.duration
                /\ c.duration <= options.maxLoopDuration * frameRate

InUnitInterval(r) == RatLE(Zero, r) /\ RatLE(r, One)

\* a score as a rational number: [num, den] in ten-thousandths
ScoreValue(score) == Rat(score.num, score.den * ScoreScale)

\* C2: every candidate _rankLoopCandidates returns has 0 <= score <= 1 and
\* 0 <= similarity <= 1.
C2_ScoreAndSimilarityBounds ==
    \A k \in 1..Len(rankedCandidates) :
        /\ InUnitInterval(ScoreValue(rankedCandidates[k].score))
        /\ InUnitInterval(rankedCandidates[k].similarity)

\* C3: for a frame buffer of n >= 1 frames the similarity matrix is n x n,
\* symmetric, 1 on the diagonal and within [0,1] everywhere.
C3_MatrixSymmetric ==
    LET n == frameBuffer.length
        matrix == calculateSimilarityMatrix(frameBuffer)
    IN  n >= 1 =>
          /\ MatrixLength(frameBuffer) = n
          /\ DOMAIN matrix = 0..(n - 1)
          /\ \A i \in 0..(n - 1) :
                /\ DOMAIN matrix[i] = 0..(n - 1)
                /\ RatEQ(matrix[i][i], One)
                /\ \A j \in 0..(n - 1) :
                      /\ RatEQ(matrix[i][j], matrix[j][i])
                      /\ InUnitInterval(matrix[i][j])

\* a frame buffer of several frames has been loaded and analysed, so that the
\* matrix has cells off the diagonal
C3_Witness ==
    /\ Analyzed
    /\ frameBuffer.length = StubFrameCount
    /\ analysisResults.mediaInfo.frameCount = StubFrameCount

\* C4: score = clamp(0.6 * similarity + 0.3 * durationFit + sourceBoost) with
\* durationFit = max(0, 1 - |duration - ideal| / (2 * ideal)), ideal = 5 s,
\* sourceBoost = 0.1 for an advisory candidate and 0 otherwise.
C4_ScoreFormula ==
    \A k \in 1..Len(rankedCandidates) :
        LET c == rankedCandidates[k]
            durationFit == Max(0, 3000 - 10 * Abs(c.duration - 5 * frameRate))
            boost == IF c.source = "gemini" THEN 1000 ELSE 0
            raw == c.similarity.num * 6000 + (durationFit + boost) * c.similarity.den
            clamped == Min(ScoreScale * c.similarity.den, Max(0, raw))
        IN  RatEQ(c.score, Rat(clamped, c.similarity.den))

Deviation(c) == Abs(c.duration - 5 * frameRate)

\* a goes before b in the order of C5
Outranks(a, b) ==
    \/ RatLT(b.score, a.score)
    \/ /\ RatEQ(a.score, b.score)
       /\ \/ RatLT(b.similarity, a.similarity)
          \/ /\ RatEQ(a.similarity, b.similarity)
             /\ \/ a.source = "gemini" /\ b.source = "algorithm"
                \/ a.source = b.source /\ Deviation(a) < Deviation(b)

InDurationBounds(c) == minFrames <= c.duration /\ c.duration <= maxFrames

\* C5: the ranked list is in descending score; equal scores are ordered by
\* larger similarity, then advisory before algorithmic, then smaller
\* deviation of the duration from the ideal.  (Stated for the lists whose
\* candidates have a similarity in [0,1] and a duration within the bounds,
\* where no score is clamped.)
C5_TieBreakOrder ==
    (\A k \in 1..Len(rankedCandidates) :
        /\ InUnitInterval(rankedCandidates[k].similarity)
        /\ InDurationBounds(rankedCandidates[k]))
    => \A i, j \in 1..Len(rankedCandidates) :
          i < j => ~Outranks(rankedCandidates[j], rankedCandidates[i])

\* C6 as claimed: an advisory candidate inside the duration bounds is ranked
\* before every algorithmic candidate of the same raw similarity, whatever the
\* two durations.
C6_AdvisoryAlwaysFirst ==
    \A i, j \in 1..Len(rankedCandidates) :
        (/\ rankedCandidates[i].source = "gemini"
         /\ InDurationBounds(rankedCandidates[i])
         /\ rankedCandidates[j].source = "algorithm"
         /\ RatEQ(rankedCandidates[i].similarity, rankedCandidates[j].similarity))
        => i < j

\* 10/3 s in ticks: the deviation 0.3 * durationScore needs to lose the 0.1 boost
BoostInTicks == Floor(1000, 10)

\* C6 as amended: an advisory candidate inside the duration bounds is ranked
\* before an algorithmic candidate of the same raw similarity (in [0,1])
\* whenever its distance from the 5 s ideal exceeds the algorithmic
\* candidate's by less than 10/3 s.
C6_AdvisoryFirstWhenClose ==
    \A i, j \in 1..Len(rankedCandidates) :
        (/\ rankedCandidates[i].source = "gemini"
         /\ InDurationBounds(rankedCandidates[i])
         /\ rankedCandidates[j].source = "algorithm"
         /\ RatEQ(rankedCandidates[i].similarity, rankedCandidates[j].similarity)
         /\ InUnitInterval(rankedCandidates[i].similarity)
         /\ Deviation(rankedCandidates[i]) - Deviation(rankedCandidates[j]) < BoostInTicks)
        => i < j

\* the algorithmic candidate was first in the argument, the advisory one of the
\* same similarity is further from the ideal, and the boost put it first
C6_Witness ==
    /\ rankCalls = 1
    /\ Len(candidates) = 2
    /\ candidates[1].source = "algorithm"
    /\ candidates[2].source = "gemini"
    /\ RatEQ(candidates[1].similarity, candidates[2].similarity)
    /\ InUnitInterval(candidates[2].similarity)
    /\ InDurationBounds(candidates[2])
    /\ Deviation(candidates[2]) > Deviation(candidates[1])
    /\ Deviation(candidates[2]) - Deviation(candidates[1]) < BoostInTicks
    /\ rankedCandidates[1].source = "gemini"

Calculated == result.producer = "calculateOptimalTransition"
Answer(type, duration) == result.type = type /\ result.duration = duration

ZeroIffCutOrNone(type, duration) == (duration = 0) <=> (type \in {"cut", "none"})

\* C9: every transition descriptor produced by optimizeTransition, by
\* _createTransition and by getOptimizedLoopParameters has duration 0 exactly
\* when its type is cut or none.
C9_ZeroDurationIffCutOrNone ==
    /\ result.producer = "optimizeTransition"
          => ZeroIffCutOrNone(result.type, result.duration)
    /\ (result.producer = "createLoop" /\ result.status = "ok")
          => \A k \in 1..Len(result.transitions) :
                ZeroIffCutOrNone(result.transitions[k].type, result.transitions[k].duration)
    /\ (/\ returned.op = "getOptimizedLoopParameters"
        /\ returned.status = "ok"
        /\ returned.value # NULL)
          => ZeroIffCutOrNone(returned.value.transitionType,
                              returned.value.transitionDuration)

\* C10: the transition engines blend at most half the units of the loop
\* segment, and the loop they return has no more units than the segment.
C10_BlendAtMostHalfSegment ==
    result.producer \in {"VideoTransitionEngine", "AudioTransitionEngine"}
       => /\ 2 * result.blended <= result.segment
          /\ result.length <= result.segment

\* the last call blended frames through the blending service
ServiceBlended ==
    /\ result.producer \in {"blendFrames", "optimizeLoop"}
    /\ result.status = "ok"
    /\ Len(result.blended) > 0

IsUnit(value, frame) == value # NaN /\ RatEQ(value, Rat(frame.unit, 1))

\* C11: in a blended boundary the first blended unit (weight 0) equals the
\* end-region unit it replaces and the last blended unit (weight 1) equals
\* the start-region unit, stated for boundaries of two units or more.
\* frame1 is the start frame and frame2 the end frame handed to
\* blendTwoFrames.
C11_BlendBoundaryIdentity ==
    (ServiceBlended /\ Len(result.blended) >= 2) =>
       LET blended == result.blended
       IN  /\ IsUnit(blended[1].value, blended[1].frame2)
           /\ IsUnit(blended[Len(blended)].value, blended[Len(blended)].frame1)

\* the weight the blend of unit i of n is claimed to have
LinearWeight(i, n) == IF n = 1 THEN Zero ELSE Rat(i, n - 1)
IsWeight(alpha, i, n) ==
    /\ alpha # NaN
    /\ RatEQ(alpha, LinearWeight(i, n))
    /\ RatLE(Zero, alpha) /\ RatLE(alpha, One)

\* C12: unit i of a blend over n units is blended with weight i / (n - 1),
\* and with weight 0 when n = 1: a defined number in [0,1], in the blending
\* service as in the video and audio transition engines.
C12_LinearBlendWeights ==
    /\ ServiceBlended =>
          \A k \in 1..Len(result.blended) :
             IsWeight(result.blended[k].alpha, k - 1, Len(result.blended))
    /\ result.producer \in {"VideoTransitionEngine", "AudioTransitionEngine"} =>
          \A k \in 1..Min(result.blended, Len(result.units)) :
             IsWeight(Rat(result.units[k].ratio[1], result.units[k].ratio[2]),
                      k - 1, result.blended)

\* C19: on a segment of fewer than 2 * blendFrameCount frames blendFrames
\* fails with the not-enough-frames error, before any frame is blended.
C19_InsufficientBlendMaterial ==
    (/\ result.producer = "blendFrames"
     /\ result.segment < 2 * result.blendFrameCount
     /\ ~(result.status = "throw" /\ result.message = "No video stream found"))
       => /\ result.status = "throw"
          /\ result.message = "Not enough frames for blending"
          /\ result.blended = << >>

BlendFailures ==
    {"No video stream found", "Not enough frames for blending", "ffmpeg error"}

\* C20: a failure of the frame blending does not fail optimizeLoop: the run
\* completes without a blended segment and reports videoBlending as not applied.
C20_BlendFailureFallsBackToCut ==
    (result.producer = "optimizeLoop" /\ result.blendFrameCount > 0)
       => \/ result.status = "ok"
          \/ result.message \notin BlendFailures

\* candidate generation has run on the recorded input
Generated == result.producer = "findLoopCandidates"

FromSource(source) ==
    {k \in 1..Len(result.candidates) : result.candidates[k].source = source}

\* C14: an advisory suggestion whose duration lies outside
\* [minLoopDuration, maxLoopDuration] is not in the candidate list, and one
\* inside the bounds is there with its start and end unchanged.
C14_AdvisoryOutsideBoundsDropped ==
    Generated =>
       \A s \in 1..Len(result.suggestions) :
          LET suggestion == result.suggestions[s]
              duration == suggestion.endFrame - suggestion.startFrame
              inside == /\ result.options.minLoopDuration * frameRate <= duration
                        /\ duration <= result.options.maxLoopDuration * frameRate
              listed == \E k \in FromSource("gemini") :
                           /\ result.candidates[k].startFrame = suggestion.startFrame
                           /\ result.candidates[k].endFrame = suggestion.endFrame
          IN  inside <=> listed

\* C15: candidate generation emits exactly one algorithm candidate for every
\* frame pair (i, j) with minDuration <= (j - i)/frameRate <= maxDuration and
\* matrix[i][j] >= 0.8, the equalities included, and none for any other pair.
C15_ExactlyTheQualifyingPairs ==
    Generated =>
       LET n == result.frameCount
           emitted(i, j) == {k \in FromSource("algorithm") :
                               /\ result.candidates[k].startFrame = i
                               /\ result.candidates[k].endFrame = j}
       IN  /\ \A i \in 0..(n - 1) : \A j \in (i + minFrames)..Min(n - 1, i + maxFrames) :
                 RatLE(Rat(8, 10), MatrixEntry(n, i, j)) => Cardinality(emitted(i, j)) = 1
           /\ \A k \in FromSource("algorithm") :
                 LET c == result.candidates[k]
                 IN  /\ c.endFrame - c.startFrame >= minFrames
                     /\ c.endFrame - c.startFrame <= maxFrames
                     /\ RatLE(Rat(8, 10), MatrixEntry(n, c.startFrame, c.endFrame))

\* C16: an analysis that returns has a best loop point, and it ran on a
\* similarity matrix of at least 2 samples; otherwise it ends with an error.
C16_NoResultWithoutBestLoopPoint ==
    (returned.op = "analyzeMedia" /\ returned.status = "ok")
       => /\ analysisResults.bestLoopPoint # UNDEFINED
          /\ MatrixLength(frameBuffer) >= 2

\* C17: when no pair reaches the threshold 0.8 the generation retries at
\* 0.75, 0.70 and 0.65, so a pair above 0.65 within the duration window
\* yields an algorithm candidate; and a generation that ends without any
\* candidate ends with the NoViableLoopFound error.  Stated for frame
\* buffers long enough to hold a pair within the window.
C17_ThresholdRelaxed ==
    (Generated /\ result.frameCount > minFrames) =>
       LET n == result.frameCount
       IN  /\ (\E i \in 0..(n - 1) : \E j \in (i + minFrames)..Min(n - 1, i + maxFrames) :
                  RatLT(Rat(65, 100), MatrixEntry(n, i, j)))
                 => FromSource("algorithm") # {}
           /\ Len(result.candidates) > 0

\* The calls whose analyzeMedia has returned its result
AnalysisDone(c) == calls[c].analysis # NULL

\* The buffer a result was computed from was stored by the call itself, or is
\* the empty one the constructor left.
OwnMedia(c, owner) == owner \in {0, c}

\* C13: on one LoopOptimizer instance, whatever the order or interleaving of
\* the processMedia calls, the analysis result of a call is computed from that
\* call's own media only: neither its loop candidates (and so its
\* bestLoopPoint) nor its mediaInfo come from frames or audio that another
\* call loaded.
C13_AnalysisFromOwnMediaOnly ==
    \A c \in Callers :
        AnalysisDone(c) =>
            /\ OwnMedia(c, calls[c].analysis.candidatesFrom)
            /\ OwnMedia(c, calls[c].analysis.mediaInfoFrom)

\* C18: a processMedia call with an invalid configuration (minLoopDuration
\* above maxLoopDuration) is rejected before any media is loaded or analysed:
\* it never gets as far as loadMedia, so no buffer of the analyzer and no
\* analysisResults comes from it.
C18_InvalidConfigurationRejectedFirst ==
    \A c \in Callers :
        (calls[c].pc # "idle" /\ InvalidConfiguration(calls[c].params)) =>
            /\ calls[c].pc \in {"ready", "detected", "failed"}
            /\ OwnerOf(frameBuffer) # c
            /\ OwnerOf(audioBuffer) # c
            /\ calls[c].analysis = NULL

\* The processMedia calls that returned a result
Processed(c) == calls[c].pc = "done"

\* A score times 100, kept in ten-thousandths as num / den, is a whole number
IsWhole(value) == value.num % (value.den * ScoreScale) = 0

\* C21: the seamlessScore of every result processMedia returns is
\* round(bestLoopPoint.score * 100), a whole number within [0, 100], and the
\* artifactRating is within [0, 100].
C21_SeamlessScoreRounded ==
    \A c \in Callers :
        Processed(c) =>
            /\ IsWhole(calls[c].outcome.seamlessScore)
            /\ RatLE(Zero, calls[c].outcome.seamlessScore)
            /\ RatLE(calls[c].outcome.seamlessScore, Rat(100 * ScoreScale, 1))
            /\ calls[c].outcome.artifactRating \in 0..100

\* No loadMedia has succeeded since the constructor or the last reset(): every
\* successful load stores a frame or an audio buffer, and only reset() takes
\* them away.
NothingLoaded == frameBuffer = Frames(0) /\ audioBuffer = NULL

\* C22: analyzeMedia fails with 'No media loaded for analysis' whenever no
\* loadMedia has succeeded since construction or since the last reset(); it
\* computes no result in that state.
C22_AnalyzeWithoutMediaFails ==
    (returned.op = "analyzeMedia" /\ NothingLoaded) =>
        /\ returned.status = "throw"
        /\ returned.value = "No media loaded for analysis"
        /\ analysisResults = NULL

EntriesInOrder(run) ==
    /\ Len(run.results) <= Len(batch.mediaQueue)
    /\ \A k \in 1..Len(run.results) :
          /\ run.results[k].status \in {"success", "error"}
          /\ run.results[k] = ResultEntry(batch.mediaQueue[k], batch.parameters)

\* C24: process() returns exactly one entry per addMedia call, in insertion
\* order, each with status success or error; a processMedia failure becomes
\* that item's error entry and the later items are still processed; the items
\* are processed one at a time, the next starting only after the previous has
\* settled.
C24_OneEntryPerItemInOrder ==
    \A r \in Runs :
        LET run == batch.runs[r]
        IN  /\ EntriesInOrder(run)
            /\ run.pc = "returned" => Len(run.results) = run.queueLength
            /\ run.pc = "awaiting" => Len(run.results) = run.index - 1

\* C24 witness: a process() call has returned for a queue of three items of
\* which the second failed and the third succeeded.
C24_Witness ==
    \E r \in Runs :
        /\ batch.runs[r].pc = "returned"
        /\ Len(batch.runs[r].results) = 3
        /\ batch.runs[r].results[2].status = "error"
        /\ batch.runs[r].results[3].status = "success"

\* The frames of request r only
OwnFrames(r, frames) == \A k \in 1..Len(frames) : frames[k].run = r

\* C25: requests under way together do not interfere through temporary
\* storage: no run loses an intermediate file it still needs to the cleanup
\* of another, none has its files overwritten by another, and every run reads
\* its own intermediate files: it blends its own start and end frames, and
\* its output is made of its own blended frames and its own main segment.
C25_RunsUseOwnIntermediateFiles ==
    \A r \in BlendRuns :
        LET run == blendRuns[r]
        IN  /\ run.pc # "thrown"
            /\ \A k \in 1..Len(run.blended) :
                  run.blended[k].frame1.run = r /\ run.blended[k].frame2.run = r
            /\ run.pc \in {"concatenated", "done"} =>
                  run.outcome.output = run.blended \o
                      extractFrames(RunVideo(r, run.totalFrames), run.blendFrameCount,
                                    run.totalFrames - 2 * run.blendFrameCount)

\* processMedia of loop-optimizer.js has returned a result
LoopProcessed == result.producer = "processMedia" /\ result.status = "ok"

\* C26: the loopMetadata.loopPoints processMedia returns are the start and end
\* LoopProcessor.createLoop cut the loop with, for every shape of suggestion:
\* with points, with startTime and endTime, an array, or none of these.
C26_ReturnedLoopPointsAreTheUsedOnes ==
    LoopProcessed => result.loopPoints = result.processedLoop.loopPoints

\* C28: createLoop rejects invalid loop parameters before it extracts a
\* segment: every targetDuration <= 0, 0 included, fails with 'Target
\* duration must be positive', and every crossfadeDuration < 0 with
\* 'Crossfade duration must be non-negative'.
C28_InvalidLoopParametersRejected ==
    (result.producer = "processMedia" /\ result.call.hasMedia
        /\ result.call.loopSuggestions # NULL /\ result.call.hasParameters) =>
        LET loopParameters == result.call.loopParameters
            negativeCrossfade == loopParameters.crossfadeDuration # Absent
                                 /\ ValueOf(loopParameters.crossfadeDuration) < 0
            targetNotPositive == loopParameters.targetDuration # Absent
                                 /\ ValueOf(loopParameters.targetDuration) <= 0
        IN  /\ negativeCrossfade =>
                  /\ result.status = "throw"
                  /\ result.message[3] = "Crossfade duration must be non-negative"
            /\ (targetNotPositive /\ ~negativeCrossfade) =>
                  /\ result.status = "throw"
                  /\ result.message[3] = "Target duration must be positive"

Recommended == result.producer = "determineRecommendedLoopPoints"

\* The advisory service gave no loop point of its own
NoGeminiLoopPoint ==
    result.geminiAnalysis = NULL \/ result.geminiAnalysis.matches = 0

\* C27: determineRecommendedLoopPoints returns at most 5 loop points, ordered
\* by non-increasing confidence, each confidence within [0, 1], whichever of
\* Gemini, the frame analysis and the audio analysis supplied them; when
\* Gemini supplied no loop point the frame and audio points are used.
C27_AtMostFiveOrderedRecommendations ==
    Recommended =>
        /\ Len(result.points) <= 5
        /\ \A k \in 1..Len(result.points) : result.points[k].confidence \in 0..10
        /\ \A k \in 1..(Len(result.points) - 1) :
              result.points[k].confidence >= result.points[k + 1].confidence
        /\ NoGeminiLoopPoint =>
              result.points = CombinedLoopPoints(result.frameAnalysis, result.audioAnalysis)

FramePointsFound == result.producer = "findPotentialLoopPoints"

\* C29: every potential loop point findPotentialLoopPoints returns, from
\* visual similarity or from scene changes, has
\* 1.0 <= endTime - startTime <= 10.0 seconds and startTime < endTime, for
\* every positive sample rate, below 1 and not whole included.
C29_PotentialLoopDurationsInRange ==
    FramePointsFound =>
        \A k \in 1..Len(result.potentialLoopPoints) :
            LET point == result.potentialLoopPoints[k]
                duration == TimeBetween(point.startTime, point.endTime)
            IN  /\ RatLE(Rat(minLoopDuration, 1), duration)
                /\ RatLE(duration, Rat(maxLoopDuration, 1))
                /\ RatLT(point.startTime, point.endTime)

\* C30: after resetUI the page stays cleared (currentFile and currentResult
\* null, the result card hidden) until the user selects a file and starts a
\* new optimization: a result is stored or displayed only by an optimization
\* started after the last resetUI, never by one started before it, whatever
\* the interleaving of clicks with the pending delays of startOptimization.
C30_ResetStaysClearedUntilNewOptimization ==
    /\ ui.currentResult # NULL => ui.currentResult.resetsAtStart = ui.resets
    /\ ~ui.resultCardHidden => ui.currentResult # NULL

=============================================================================
